---- MODULE Spec2Model ----
(***************************************************************************)
(* PKSM (anon-page KSM), src/mm/pksm.c: the stable tree, the unstable tree *)
(* with its checksum list, the intake queues, the scanner (ksm_do_scan)    *)
(* and the host callbacks pksm_add_new_anon_page / pksm_del_anon_page.     *)
(*                                                                         *)
(* Host side (page tables, page reference counts, page lock, direct I/O)   *)
(* is modelled only as far as the engine reads it:                         *)
(*   - every page frame is born with one private mapping (pte) of its own  *)
(*     anon_vma; page p, its first mapping and its anon_vma share index p; *)
(*   - page_count(p) = page_mapcount(p) + the scanner's reference + a      *)
(*     direct-I/O pin; a page is freed (pksm_del_anon_page) only when its  *)
(*     count is zero, which is what get_page_unless_zero relies on;        *)
(*   - the red-black trees are kept as sets of rmap_items with distinct    *)
(*     checksums; a descent visits, at every level, any node of the        *)
(*     remaining key interval (every binary-search-tree shape).            *)
(***************************************************************************)
EXTENDS Integers, Sequences, FiniteSets, TLC

----------------------------------------------------------------------------
(* Bounds of the model *)

NumPages == 2
NumMaps == 2
NumForks == 1
NumUnmappers == 3
MaxOtherSharers == 1
SmallPagesToScan == 1
MaxBudget == 2
NumSpareRmaps == 1
PageWords == 2
WordMax == 1
HashStrength == 1
MaxWaiters == 1
MaxBusy == 1
MaxWrites == 1

(* Program constants *)

shiftl == 8
shiftr == 12
ksm_thread_pages_to_scan == 1000
ksm_thread_sleep_millisecs == 20
pksm_unshared_page_update_period == 10

Pages == 1..NumPages
Maps == 1..(NumMaps + NumForks)
OwnMaps == 1..NumMaps
ForkMaps == (NumMaps + 1)..(NumMaps + NumForks)
Rmaps == 1..(NumPages + NumSpareRmaps)
KSM_RUN_STOP == 0
KSM_RUN_MERGE == 1
KSM_RUN_UNMERGE == 2

NULL == 0
ZERO_PAGE == NumPages + 1
NOPAGE == NumPages + 2

PKSM_FAULT_SUCCESS == "SUCCESS"
PKSM_FAULT_DROP == "DROP"
PKSM_FAULT_TRY == "TRY"
PKSM_FAULT_KEEP == "KEEP"
EFAULT == "EFAULT"

NEWLIST_FLAG == "NEWLIST"
DELLIST_FLAG == "DELLIST"
INKSM_FLAG == "INKSM"
UNSTABLE_FLAG == "UNSTABLE"
STABLE_FLAG == "STABLE"
CHECKSUM_LIST_FLAG == "CHECKSUM_LIST"
INITCHECKSUM_FLAG == "INITCHECKSUM"
RESCAN_LIST_FLAG == "RESCAN_LIST"

----------------------------------------------------------------------------
(* Sampled hash.  A u32 is kept as its two 16-bit halves [hi, lo], so that
   the 32-bit unsigned arithmetic of the C code is exact. *)

Half == 256 * 256

RECURSIVE BitXor(_, _)
BitXor(a, b) ==
    IF a = 0 THEN b
    ELSE IF b = 0 THEN a
    ELSE (((a % 2) + (b % 2)) % 2) + 2 * BitXor(a \div 2, b \div 2)

RECURSIVE Pow2(_)
Pow2(n) == IF n = 0 THEN 1 ELSE 2 * Pow2(n - 1)

U32(hi, lo) == [hi |-> hi, lo |-> lo]

U32Add(x, y) ==
    U32((x.hi + y.hi + ((x.lo + y.lo) \div Half)) % Half,
        (x.lo + y.lo) % Half)

(* x << n and x >> n for 0 <= n <= 15 *)
U32Shl(x, n) ==
    U32(((x.hi * Pow2(n)) % Half) + ((x.lo * Pow2(n)) \div Half),
        (x.lo * Pow2(n)) % Half)

U32Shr(x, n) ==
    U32(x.hi \div Pow2(n),
        (x.lo \div Pow2(n)) + ((x.hi % Pow2(n)) * Pow2(16 - n)))

U32Xor(x, y) == U32(BitXor(x.hi, y.hi), BitXor(x.lo, y.lo))

U32Less(x, y) == x.hi < y.hi \/ (x.hi = y.hi /\ x.lo < y.lo)

(* 0xdeadbeef *)
HashSeed == U32(57005, 48879)

(* a round without hash += (hash << shiftl): the shifted sum alone *)
HashRound_shiftonly(hash, w) ==
    LET h1 == U32Add(hash, U32(0, w))
    IN  U32Xor(U32Shl(h1, shiftl), U32Shr(h1, shiftr))

(* one round of HASH_FROM_TO with the word w = key[pos] *)
HashRound(hash, w) ==
    LET h1 == U32Add(hash, U32(0, w))
        h2 == U32Add(h1, U32Shl(h1, shiftl))
    IN  U32Xor(h2, U32Shr(h2, shiftr))

RECURSIVE HASH_FROM_TO(_, _, _, _, _)
HASH_FROM_TO(hash, key, table, index, to) ==
    IF index >= to THEN hash
    ELSE HASH_FROM_TO(HashRound(hash, key[table[index + 1] + 1]),
                      key, table, index + 1, to)

pksm_calc_checksum(key, table, hash_strength) ==
    HASH_FROM_TO(HashSeed, key, table, 0, hash_strength)

RECURSIVE ZERO_HASH_FROM_TO(_, _, _)
ZERO_HASH_FROM_TO(hash, index, to) ==
    IF index >= to THEN hash
    ELSE ZERO_HASH_FROM_TO(HashRound(hash, 0), index + 1, to)

pksm_calc_zero_page_checksum(hash_strength) ==
    ZERO_HASH_FROM_TO(HashSeed, 0, hash_strength)

(* page contents: PageWords words; the offset table: a permutation of the
   word offsets 0..PageWords-1 (init_random_sampling) *)
Contents == [1..PageWords -> 0..WordMax]
ZeroContent == [i \in 1..PageWords |-> 0]
Tables == {t \in [1..PageWords -> 0..(PageWords - 1)] :
              \A i, j \in 1..PageWords : i # j => t[i] # t[j]}

(* calc_checksum of every content under every table, computed once *)
ChecksumOf == [t \in Tables |-> [c \in Contents |->
                  pksm_calc_checksum(c, t, HashStrength)]]

is_full_zero(c) == \A i \in 1..PageWords : c[i] = 0

memcmp_pages(c1, c2) == IF c1 = c2 THEN 0 ELSE 1

pages_identical(c1, c2) == memcmp_pages(c1, c2) = 0

hash_cmp(new_val, node_val) ==
    IF U32Less(node_val, new_val) THEN 1
    ELSE IF U32Less(new_val, node_val) THEN -1
    ELSE 0

----------------------------------------------------------------------------
VARIABLES
    page,       \* page frames: st, data, PKSM (PagePKSM), pksm (page->pksm),
                \* ksm (PageKsm), stable (rmap_item part of page->mapping),
                \* av (anon_vma part of page->mapping)
    pte,        \* page-table entries: pg (frame mapped), w (pte_write)
    rmap,       \* rmap_items: alloc, page, flags, checksum, anon_vma,
                \* hlist (anchors), mapcount (_mapcount)
    root_stable_tree,
    root_unstable_tree,
    new_anon_page_list,
    del_anon_page_list,
    pksm_rescan_page_list,
    unstabletree_checksum_list,
    counters,   \* ksm_pages_shared, ksm_pages_sharing, ksm_pages_unshared,
                \* ksm_rmap_items, ksm_stable_nodes, ksm_pages_zero_sharing
    pksm_random_table,
    l_add,      \* ksm_do_scan's local working list
    pc,         \* where the scanner thread is inside ksm_do_scan
    cur,        \* ksm_do_scan's rmap_item while it works on a candidate
    curpage,    \* ksm_do_scan's page: the scanner holds a reference to it
    init_checksum,
    writes,     \* stores the host has made so far
    reap_due,   \* rmap_items on the delete queue when the tick began
    ever_shared, \* history: some mapping was redirected by replace_page
    ksm_run,    \* KSM_RUN_STOP, KSM_RUN_MERGE or KSM_RUN_UNMERGE
    anon_vma_head, \* anon_vma->head of each anon_vma: the vmas chained to it
    vm_flags,   \* vma->vm_flags of each vma
    run_store_wait, \* run_store callers blocked on ksm_thread_mutex: the
                \* flags each of them is about to store
    stopped_intake, \* history: pages announced while ksmd would not run
    last,       \* the last completed call: op, arg, ret and what it did
    sh          \* the sharing counters of one merged page at the grain of
                \* their loads and stores, and the threads that update them

vars == <<page, pte, rmap, root_stable_tree, root_unstable_tree,
          new_anon_page_list, del_anon_page_list, pksm_rescan_page_list,
          unstabletree_checksum_list, counters, pksm_random_table, l_add,
          pc, cur, curpage, init_checksum, writes, reap_due, ever_shared,
          ksm_run, run_store_wait, stopped_intake, last, anon_vma_head,
          vm_flags, sh>>

----------------------------------------------------------------------------
(* The state the engine code works on, as one record, so that the C code's
   statement sequences become nested LETs.  ref[p] counts the page
   references the scanner holds; repl collects the replace_page calls of
   the running operation; oops is set where a BUG_ON or a NULL dereference
   would stop the kernel. *)

EngineWith(busy) ==
    [page |-> page, pte |-> pte, rmap |-> rmap,
     st |-> root_stable_tree, un |-> root_unstable_tree,
     ck |-> unstabletree_checksum_list, cnt |-> counters,
     nl |-> new_anon_page_list, dl |-> del_anon_page_list,
     rl |-> pksm_rescan_page_list, la |-> l_add,
     ref |-> [p \in Pages |-> IF curpage = p THEN 1 ELSE 0],
     locked |-> busy.locked, dio |-> busy.dio,
     repl |-> {}, oops |-> FALSE]

NotBusy == [locked |-> {}, dio |-> {}]

Engine == EngineWith(NotBusy)

RECURSIVE SeqRemove(_, _)
SeqRemove(s, x) ==
    IF s = <<>> THEN <<>>
    ELSE IF Head(s) = x THEN SeqRemove(Tail(s), x)
    ELSE <<Head(s)>> \o SeqRemove(Tail(s), x)

SeqSet(s) == {s[i] : i \in 1..Len(s)}

PageAnon(E, p) == p \in Pages /\ E.page[p].st = "anon"
PageKsm(E, p) == p \in Pages /\ E.page[p].ksm
PagePKSM(E, p) == p \in Pages /\ E.page[p].PKSM
PageLocked(E, p) == p \in E.locked

page_mapcount(E, p) == Cardinality({m \in Maps : E.pte[m].pg = p})

(* host: _count = one per pte + the scanner's references + a direct-I/O pin *)
page_count(E, p) ==
    page_mapcount(E, p) + E.ref[p] + (IF p \in E.dio THEN 1 ELSE 0)

get_page_unless_zero(E, p) == page_count(E, p) > 0

get_page(E, p) == [E EXCEPT !.ref[p] = @ + 1]
put_page(E, p) == [E EXCEPT !.ref[p] = @ - 1]

check_page_dio(E, p) == page_mapcount(E, p) + 1 + 0 # page_count(E, p)

check_valid_rmap_item(E, r) ==
    /\ r # NULL
    /\ E.rmap[r].page # NULL
    /\ PagePKSM(E, E.rmap[r].page)
    /\ INKSM_FLAG \in E.rmap[r].flags

page_stable_rmap_item(E, p) ==
    IF ~PageKsm(E, p) THEN NULL
    ELSE IF ~PagePKSM(E, p) THEN NULL
    ELSE E.page[p].pksm

in_stable_tree(E, r) == STABLE_FLAG \in E.rmap[r].flags
in_unstable_tree(E, r) == UNSTABLE_FLAG \in E.rmap[r].flags

pksm_del_sharing_page_counter(E, p, n) ==
    LET r == E.page[p].pksm
    IN  [E EXCEPT !.cnt.ksm_pages_sharing = @ - n,
                  !.rmap[r].mapcount = @ - n]

pksm_add_sharing_page_counter(E, p, n) ==
    IF ~PageKsm(E, p) THEN E
    ELSE LET r == E.page[p].pksm
         IN  IF r = NULL THEN [E EXCEPT !.oops = TRUE]
             ELSE [E EXCEPT !.cnt.ksm_pages_sharing = @ + n,
                            !.rmap[r].mapcount = @ + n]

pksm_unmap_sharing_page(E, p) ==
    IF ~(PageKsm(E, p) /\ PagePKSM(E, p)) THEN E
    ELSE LET r == E.page[p].pksm
         IN  IF ~check_valid_rmap_item(E, r) THEN E
             ELSE LET ksm_map == E.rmap[r].mapcount
                      mapcount == page_mapcount(E, p)
                  IN  IF mapcount > ksm_map THEN E
                      ELSE IF ksm_map > 0
                           THEN pksm_del_sharing_page_counter(E, p, 1)
                           ELSE E

get_ksm_page(E, r) ==
    /\ check_valid_rmap_item(E, r)
    /\ STABLE_FLAG \in E.rmap[r].flags
    /\ PageKsm(E, E.rmap[r].page)
    /\ E.page[E.rmap[r].page].stable = r
    /\ get_page_unless_zero(E, E.rmap[r].page)

get_mergeable_page(E, r) ==
    /\ check_valid_rmap_item(E, r)
    /\ UNSTABLE_FLAG \in E.rmap[r].flags
    /\ get_page_unless_zero(E, E.rmap[r].page)
    /\ PageAnon(E, E.rmap[r].page)

free_stable_anons(E, r) ==
    [E EXCEPT !.cnt.ksm_stable_nodes = @ - Len(E.rmap[r].hlist),
              !.rmap[r].hlist = <<>>]

(* remove_rmap_item_from_tree that erases an unstable node and leaves
   UNSTABLE_FLAG set *)
remove_rmap_item_from_tree_keepflag(E, r, free_anon) ==
    IF r = NULL THEN E
    ELSE
    LET f == E.rmap[r].flags
        linked == r \in E.st \/ r \in E.un
        E1 == IF STABLE_FLAG \in f
              THEN IF linked
                   THEN [E EXCEPT !.rmap[r].flags = @ \ {STABLE_FLAG},
                                  !.st = @ \ {r}, !.un = @ \ {r},
                                  !.cnt.ksm_pages_shared = @ - 1]
                   ELSE E
              ELSE IF UNSTABLE_FLAG \in f
              THEN LET Ea == IF linked
                             THEN [E EXCEPT
                                     !.un = @ \ {r}, !.st = @ \ {r},
                                     !.cnt.ksm_pages_unshared = @ - 1]
                             ELSE E
                   IN  IF CHECKSUM_LIST_FLAG \in f
                       THEN [Ea EXCEPT
                               !.ck = SeqRemove(@, r),
                               !.rmap[r].flags = @ \ {CHECKSUM_LIST_FLAG}]
                       ELSE Ea
              ELSE E
    IN  IF free_anon /\ E1.rmap[r].hlist # <<>>
        THEN free_stable_anons(E1, r)
        ELSE E1

(* remove_rmap_item_from_tree without the list_del_init of update_list *)
remove_rmap_item_from_tree_keeplist(E, r, free_anon) ==
    IF r = NULL THEN E
    ELSE
    LET f == E.rmap[r].flags
        linked == r \in E.st \/ r \in E.un
        E1 == IF STABLE_FLAG \in f
              THEN IF linked
                   THEN [E EXCEPT !.rmap[r].flags = @ \ {STABLE_FLAG},
                                  !.st = @ \ {r}, !.un = @ \ {r},
                                  !.cnt.ksm_pages_shared = @ - 1]
                   ELSE E
              ELSE IF UNSTABLE_FLAG \in f /\ linked
              THEN [E EXCEPT !.rmap[r].flags = @ \ {UNSTABLE_FLAG},
                             !.un = @ \ {r}, !.st = @ \ {r},
                             !.cnt.ksm_pages_unshared = @ - 1]
              ELSE E
    IN  IF free_anon /\ E1.rmap[r].hlist # <<>>
        THEN free_stable_anons(E1, r)
        ELSE E1

remove_rmap_item_from_tree(E, r, free_anon) ==
    IF r = NULL THEN E
    ELSE
    LET f == E.rmap[r].flags
        linked == r \in E.st \/ r \in E.un
        E1 == IF STABLE_FLAG \in f
              THEN IF linked
                   THEN [E EXCEPT !.rmap[r].flags = @ \ {STABLE_FLAG},
                                  !.st = @ \ {r}, !.un = @ \ {r},
                                  !.cnt.ksm_pages_shared = @ - 1]
                   ELSE E
              ELSE IF UNSTABLE_FLAG \in f
              THEN LET Ea == IF linked
                             THEN [E EXCEPT
                                     !.rmap[r].flags = @ \ {UNSTABLE_FLAG},
                                     !.un = @ \ {r}, !.st = @ \ {r},
                                     !.cnt.ksm_pages_unshared = @ - 1]
                             ELSE E
                   IN  IF CHECKSUM_LIST_FLAG \in f
                       THEN [Ea EXCEPT
                               !.ck = SeqRemove(@, r),
                               !.rmap[r].flags = @ \ {CHECKSUM_LIST_FLAG}]
                       ELSE Ea
              ELSE E
    IN  IF free_anon /\ E1.rmap[r].hlist # <<>>
        THEN free_stable_anons(E1, r)
        ELSE E1

(* kmem_cache_free: the object's memory is no longer the engine's; the
   model keeps one value for every freed object *)
FreedRmap == [alloc |-> "freed", page |-> NULL, flags |-> {},
              checksum |-> U32(0, 0), anon_vma |-> NULL, hlist |-> <<>>,
              mapcount |-> 0]

(* pksm_free_rmap_item that does not lower ksm_rmap_items *)
pksm_free_rmap_item_nocount(E, r) ==
    [E EXCEPT !.rmap[r] = FreedRmap]

pksm_free_rmap_item(E, r) ==
    [E EXCEPT !.cnt.ksm_rmap_items = @ - 1, !.rmap[r] = FreedRmap]

----------------------------------------------------------------------------
(* Merge primitives *)

(* write_protect_page that leaves the pte writable *)
write_protect_page_keepwrite(E, m, p) ==
    IF E.pte[m].pg # p THEN [e |-> E, err |-> PKSM_FAULT_DROP]
    ELSE IF E.pte[m].w
    THEN IF page_mapcount(E, p) + 1 + 0 # page_count(E, p)
         THEN [e |-> E, err |-> PKSM_FAULT_TRY]
         ELSE [e |-> E, err |-> PKSM_FAULT_SUCCESS]
    ELSE [e |-> E, err |-> PKSM_FAULT_SUCCESS]

write_protect_page(E, m, p) ==
    IF E.pte[m].pg # p THEN [e |-> E, err |-> PKSM_FAULT_DROP]
    ELSE IF E.pte[m].w
    THEN IF page_mapcount(E, p) + 1 + 0 # page_count(E, p)
         THEN [e |-> E, err |-> PKSM_FAULT_TRY]
         ELSE [e |-> [E EXCEPT !.pte[m].w = FALSE],
               err |-> PKSM_FAULT_SUCCESS]
    ELSE [e |-> E, err |-> PKSM_FAULT_SUCCESS]

ContentOf(E, p) == IF p = ZERO_PAGE THEN ZeroContent ELSE E.page[p].data

(* replace_page that counts a zero-frame redirection downwards *)
replace_page_zerodec(E, m, p, kpage) ==
    IF E.pte[m].pg # p THEN [e |-> E, err |-> PKSM_FAULT_DROP]
    ELSE
    LET note == [victim |-> p, winner |-> kpage,
                 same |-> (ContentOf(E, p) = ContentOf(E, kpage)),
                 wp |-> ~E.pte[m].w]
        E1 == [E EXCEPT !.pte[m] = [pg |-> kpage, w |-> FALSE],
                        !.repl = @ \cup {note}]
        E2 == IF kpage = ZERO_PAGE
              THEN [E1 EXCEPT !.cnt.ksm_pages_zero_sharing = @ - 1]
              ELSE E1
        E3 == IF kpage = ZERO_PAGE THEN E2
              ELSE pksm_add_sharing_page_counter(E2, kpage, 1)
    IN  [e |-> E3, err |-> PKSM_FAULT_SUCCESS]

replace_page(E, m, p, kpage) ==
    IF E.pte[m].pg # p THEN [e |-> E, err |-> PKSM_FAULT_DROP]
    ELSE
    LET note == [victim |-> p, winner |-> kpage,
                 same |-> (ContentOf(E, p) = ContentOf(E, kpage)),
                 wp |-> ~E.pte[m].w]
        E1 == [E EXCEPT !.pte[m] = [pg |-> kpage, w |-> FALSE],
                        !.repl = @ \cup {note}]
        E2 == IF kpage = ZERO_PAGE
              THEN [E1 EXCEPT !.cnt.ksm_pages_zero_sharing = @ + 1]
              ELSE E1
        E3 == IF kpage = ZERO_PAGE THEN E2
              ELSE pksm_add_sharing_page_counter(E2, kpage, 1)
    IN  [e |-> E3, err |-> PKSM_FAULT_SUCCESS]

set_page_stable_ksm(E, p, r) ==
    [E EXCEPT !.page[p].ksm = TRUE, !.page[p].stable = r]

(* the vmas on an anon_vma: the vma it was created for and the vmas of
   forked children; anon_vma av and the pte slot of its vma share the index
   av *)
AnonVmaMaps(av) == anon_vma_head[av]

UnscannableFlags ==
    {"VM_PFNMAP", "VM_IO", "VM_DONTEXPAND", "VM_RESERVED", "VM_HUGETLB",
     "VM_INSERTPAGE", "VM_NONLINEAR", "VM_MIXEDMAP", "VM_SAO", "VM_SHARED",
     "VM_MAYSHARE", "VM_GROWSUP", "VM_GROWSDOWN"}

pksm_flags_can_scan(flags) == flags \cap UnscannableFlags = {}

vma_can_enter(m) == pksm_flags_can_scan(vm_flags[m])

(* page_rmapping of an anonymous page: the anon_vma it was faulted into *)
page_rmapping(E, p) == E.page[p].av

(* pksm_writepect_pte without the byte comparison *)
pksm_writepect_pte_nocmp(E, p, m, kpage) ==
    LET w == write_protect_page(E, m, p)
    IN  IF w.err = PKSM_FAULT_SUCCESS
        THEN IF kpage = NULL
             THEN [e |-> set_page_stable_ksm(w.e, p, NULL),
                   err |-> PKSM_FAULT_SUCCESS]
             ELSE replace_page(w.e, m, p, kpage)
        ELSE w

pksm_writepect_pte(E, p, m, kpage) ==
    LET w == write_protect_page(E, m, p)
    IN  IF w.err = PKSM_FAULT_SUCCESS
        THEN IF kpage = NULL
             THEN [e |-> set_page_stable_ksm(w.e, p, NULL),
                   err |-> PKSM_FAULT_SUCCESS]
             ELSE IF pages_identical(ContentOf(w.e, p), ContentOf(w.e, kpage))
             THEN replace_page(w.e, m, p, kpage)
             ELSE w
        ELSE w

pksm_merge_zero_page(E, p, m, kpage) ==
    LET w == write_protect_page(E, m, p)
    IN  IF w.err = PKSM_FAULT_SUCCESS
        THEN IF is_full_zero(ContentOf(w.e, p))
             THEN replace_page(w.e, m, p, kpage)
             ELSE w
        ELSE w

rmap_one(E, p, m, kpage, zero) ==
    IF zero THEN pksm_merge_zero_page(E, p, m, kpage)
    ELSE pksm_writepect_pte(E, p, m, kpage)

RECURSIVE WalkFrom(_, _, _, _, _, _, _)
WalkFrom(E, p, ms, i, ret, kpage, zero) ==
    IF i > Len(ms) THEN [e |-> E, err |-> ret]
    ELSE IF ~vma_can_enter(ms[i]) THEN [e |-> E, err |-> ret]
    ELSE LET r1 == rmap_one(E, p, ms[i], kpage, zero)
         IN  IF r1.err # PKSM_FAULT_SUCCESS THEN r1
             ELSE WalkFrom(r1.e, p, ms, i + 1, r1.err, kpage, zero)

(* page_lock_anon_vma gives no anon_vma for a KSM page (its mapping is not a
   plain anon mapping) nor for a page that is not mapped *)
pksm_rmap_walk(E, p, kpage, zero) ==
    IF ~PageAnon(E, p) THEN [e |-> E, err |-> PKSM_FAULT_DROP]
    ELSE IF PageKsm(E, p) \/ page_mapcount(E, p) = 0
    THEN [e |-> E, err |-> PKSM_FAULT_DROP]
    ELSE WalkFrom(E, p, AnonVmaMaps(page_rmapping(E, p)), 1,
                  PKSM_FAULT_DROP, kpage, zero)

try_to_merge_one_anon_page(E, p, kpage) ==
    IF p = kpage THEN [e |-> E, err |-> PKSM_FAULT_SUCCESS]
    ELSE IF ~PageAnon(E, p) THEN [e |-> E, err |-> PKSM_FAULT_DROP]
    ELSE IF PageLocked(E, p) THEN [e |-> E, err |-> PKSM_FAULT_TRY]
    ELSE pksm_rmap_walk(E, p, kpage, FALSE)

try_to_merge_with_pksm_page(E, r, p, kpage) ==
    LET x == try_to_merge_one_anon_page(E, p, kpage)
    IN  IF r # E.page[p].pksm THEN [e |-> [x.e EXCEPT !.oops = TRUE],
                                    err |-> x.err]
        ELSE x

try_to_merge_two_pages(E, r, p, tree_rmap_item, tree_page) ==
    LET a == try_to_merge_with_pksm_page(E, r, p, NULL)
    IN  IF a.err = PKSM_FAULT_SUCCESS
        THEN try_to_merge_with_pksm_page(a.e, tree_rmap_item, tree_page, p)
        ELSE a

try_to_merge_zero_page(E, p) ==
    IF ~PageAnon(E, p) THEN [e |-> E, err |-> PKSM_FAULT_DROP]
    ELSE IF PageLocked(E, p) THEN [e |-> E, err |-> PKSM_FAULT_DROP]
    ELSE pksm_rmap_walk(E, p, ZERO_PAGE, TRUE)

find_zero_page_hash(E, p) ==
    E.rmap[E.page[p].pksm].checksum
        = pksm_calc_zero_page_checksum(HashStrength)

cmp_and_merge_zero_page(E, p) ==
    IF find_zero_page_hash(E, p)
    THEN LET z == try_to_merge_zero_page(E, p)
         IN  IF z.err = PKSM_FAULT_SUCCESS THEN [e |-> z.e, err |-> "0"]
             ELSE [e |-> z.e, err |-> EFAULT]
    ELSE [e |-> E, err |-> EFAULT]

----------------------------------------------------------------------------
(* Tree descents.  Each returns the set of its possible results: the node
   visited at a level is any node of the remaining key interval.  A descent
   that evicts a node it cannot unlink would restart for ever: "HANG".
   stale is the visited node whose page reference could not be taken. *)

Key(E, r) == E.rmap[r].checksum

Evictable(E, n) ==
    DELLIST_FLAG \in E.rmap[n].flags \/ E.rmap[n].page = NULL

RECURSIVE stable_search_from(_, _, _)
stable_search_from(E, r, cand) ==
    IF cand = {} THEN {[e |-> E, kpage |-> NULL, hang |-> FALSE, stale |-> NULL]}
    ELSE UNION {
        IF Evictable(E, n)
        THEN LET E1 == remove_rmap_item_from_tree(E, n, FALSE)
             IN  IF n \in E1.st
                 THEN {[e |-> E1, kpage |-> NULL, hang |-> TRUE, stale |-> NULL]}
                 ELSE stable_search_from(E1, r, E1.st)
        ELSE IF ~get_ksm_page(E, n)
        THEN {[e |-> E, kpage |-> NULL, hang |-> FALSE, stale |-> n]}
        ELSE LET ret == hash_cmp(Key(E, r), Key(E, n))
             IN  IF ret < 0
                 THEN stable_search_from(E, r,
                          {x \in cand : U32Less(Key(E, x), Key(E, n))})
                 ELSE IF ret > 0
                 THEN stable_search_from(E, r,
                          {x \in cand : U32Less(Key(E, n), Key(E, x))})
                 ELSE {[e |-> get_page(E, E.rmap[n].page),
                        kpage |-> E.rmap[n].page, hang |-> FALSE, stale |-> NULL]}
        : n \in cand }

stable_tree_search(E, p) ==
    IF PageKsm(E, p) THEN {[e |-> E, kpage |-> NULL, hang |-> FALSE, stale |-> NULL]}
    ELSE stable_search_from(E, E.page[p].pksm, E.st)

stable_link(E, r, kpage) ==
    LET E1 == IF E.rmap[r].flags \cap {UNSTABLE_FLAG, STABLE_FLAG} # {}
              THEN [E EXCEPT !.oops = TRUE] ELSE E
        E2 == [E1 EXCEPT !.st = @ \cup {r},
                         !.rmap[r].flags = @ \cup {STABLE_FLAG}]
    IN  set_page_stable_ksm(E2, kpage, r)

RECURSIVE stable_insert_from(_, _, _, _)
stable_insert_from(E, r, kpage, cand) ==
    IF cand = {}
    THEN {[e |-> stable_link(E, r, kpage), err |-> PKSM_FAULT_SUCCESS,
           hang |-> FALSE, stale |-> NULL]}
    ELSE UNION {
        IF Evictable(E, n)
        THEN LET E1 == remove_rmap_item_from_tree(E, n, FALSE)
             IN  IF n \in E1.st
                 THEN {[e |-> E1, err |-> PKSM_FAULT_DROP, hang |-> TRUE, stale |-> NULL]}
                 ELSE stable_insert_from(E1, r, kpage, E1.st)
        ELSE IF ~get_ksm_page(E, n)
        THEN {[e |-> E, err |-> PKSM_FAULT_DROP, hang |-> FALSE, stale |-> n]}
        ELSE LET ret == hash_cmp(Key(E, r), Key(E, n))
             IN  IF ret < 0
                 THEN stable_insert_from(E, r, kpage,
                          {x \in cand : U32Less(Key(E, x), Key(E, n))})
                 ELSE IF ret > 0
                 THEN stable_insert_from(E, r, kpage,
                          {x \in cand : U32Less(Key(E, n), Key(E, x))})
                 ELSE {[e |-> E, err |-> PKSM_FAULT_TRY, hang |-> FALSE, stale |-> NULL]}
        : n \in cand }

(* stable_tree_insert that links the rmap_item next to a node of equal hash *)
stable_tree_insert_dup(E, r, kpage) ==
    { IF si.err = PKSM_FAULT_TRY
      THEN [si EXCEPT !.e = stable_link(si.e, r, kpage),
                      !.err = PKSM_FAULT_SUCCESS]
      ELSE si
      : si \in stable_insert_from(E, r, kpage, E.st) }

stable_tree_insert(E, r, kpage) == stable_insert_from(E, r, kpage, E.st)

(* the link step of unstable_tree_search_insert without ksm_pages_unshared++ *)
unstable_link_nocount(E, r) ==
    IF UNSTABLE_FLAG \notin E.rmap[r].flags
    THEN [E EXCEPT
            !.rmap[r].flags = @ \cup {UNSTABLE_FLAG, CHECKSUM_LIST_FLAG},
            !.un = @ \cup {r},
            !.ck = Append(@, r)]
    ELSE E

unstable_link(E, r) ==
    LET E1 == IF E.rmap[r].flags \cap {UNSTABLE_FLAG, STABLE_FLAG} # {}
              THEN [E EXCEPT !.oops = TRUE] ELSE E
    IN  IF UNSTABLE_FLAG \notin E1.rmap[r].flags
        THEN [E1 EXCEPT
                !.rmap[r].flags = @ \cup {UNSTABLE_FLAG, CHECKSUM_LIST_FLAG},
                !.un = @ \cup {r},
                !.cnt.ksm_pages_unshared = @ + 1,
                !.ck = Append(@, r)]
        ELSE E1

RECURSIVE unstable_from(_, _, _, _)
unstable_from(E, r, p, cand) ==
    IF cand = {}
    THEN {[e |-> unstable_link(E, r), tree_rmap_item |-> NULL,
           tree_page |-> NULL, hang |-> FALSE, stale |-> NULL]}
    ELSE UNION {
        IF Evictable(E, n)
        THEN LET E1 == remove_rmap_item_from_tree(E, n, FALSE)
             IN  IF n \in E1.un
                 THEN {[e |-> E1, tree_rmap_item |-> NULL,
                        tree_page |-> NULL, hang |-> TRUE, stale |-> NULL]}
                 ELSE unstable_from(E1, r, p, E1.un)
        ELSE IF ~get_mergeable_page(E, n)
        THEN {[e |-> E, tree_rmap_item |-> NULL, tree_page |-> NULL,
               hang |-> FALSE, stale |-> n]}
        ELSE IF p = E.rmap[n].page
        THEN {[e |-> E, tree_rmap_item |-> NULL, tree_page |-> NULL,
               hang |-> FALSE, stale |-> NULL]}
        ELSE LET ret == hash_cmp(Key(E, r), Key(E, n))
             IN  IF ret < 0
                 THEN unstable_from(E, r, p,
                          {x \in cand : U32Less(Key(E, x), Key(E, n))})
                 ELSE IF ret > 0
                 THEN unstable_from(E, r, p,
                          {x \in cand : U32Less(Key(E, n), Key(E, x))})
                 ELSE {[e |-> get_page(E, E.rmap[n].page),
                        tree_rmap_item |-> n,
                        tree_page |-> E.rmap[n].page, hang |-> FALSE, stale |-> NULL]}
        : n \in cand }

unstable_tree_search_insert(E, r, p) == unstable_from(E, r, p, E.un)

(* stable_tree_append that counts every anchor in ksm_pages_shared *)
stable_tree_append_count_all(E, rmap_head, p) ==
    LET r == E.page[p].pksm
    IN  IF ~check_valid_rmap_item(E, rmap_head) THEN E
        ELSE IF ~check_valid_rmap_item(E, r) THEN E
        ELSE LET av == IF PageKsm(E, p) THEN E.rmap[r].anon_vma
                       ELSE page_rmapping(E, p)
             IN  [E EXCEPT !.cnt.ksm_stable_nodes = @ + 1,
                           !.cnt.ksm_pages_shared = @ + 1,
                           !.rmap[rmap_head].hlist = <<av>> \o @]

stable_tree_append(E, rmap_head, p) ==
    LET r == E.page[p].pksm
    IN  IF ~check_valid_rmap_item(E, rmap_head) THEN E
        ELSE IF ~check_valid_rmap_item(E, r) THEN E
        ELSE LET av == IF PageKsm(E, p) THEN E.rmap[r].anon_vma
                       ELSE page_rmapping(E, p)
                 wasEmpty == E.rmap[rmap_head].hlist = <<>>
                 E1 == [E EXCEPT
                          !.cnt.ksm_stable_nodes = @ + 1,
                          !.rmap[rmap_head].hlist = <<av>> \o @]
             IN  IF wasEmpty
                 THEN [E1 EXCEPT !.cnt.ksm_pages_shared = @ + 1]
                 ELSE E1

----------------------------------------------------------------------------
(* cmp_and_merge_page: the set of its possible results.  Besides the state
   and the return code, a result notes the branch taken (path), the page
   whose checksum matched (peer) and its rmap_item (peer_rmap), and whether
   the two pages were byte-identical when the checksums matched (ident). *)

Outcome(E, err, path, peer, peer_rmap, ident) ==
    [e |-> E, err |-> err, path |-> path, peer |-> peer,
     peer_rmap |-> peer_rmap, ident |-> ident]

merge_with_stable(E, p, r, kpage) ==
    LET ident == ContentOf(E, p) = ContentOf(E, kpage)
        head == E.page[kpage].pksm
        m == try_to_merge_with_pksm_page(E, r, p, kpage)
        E1 == IF m.err = PKSM_FAULT_SUCCESS
              THEN stable_tree_append(m.e,
                       page_stable_rmap_item(m.e, kpage), p)
              ELSE m.e
    IN  {Outcome(put_page(E1, kpage), m.err, "stable", kpage, head, ident)}

merge_with_unstable(E, p, r, tree_rmap_item, tree_page) ==
    LET ident == ContentOf(E, p) = ContentOf(E, tree_page)
        t == try_to_merge_two_pages(E, r, p, tree_rmap_item, tree_page)
    IN  IF t.err # PKSM_FAULT_SUCCESS
        THEN {Outcome(put_page(t.e, tree_page), t.err, "unstable",
                      tree_page, tree_rmap_item, ident)}
        ELSE LET E1 == remove_rmap_item_from_tree(t.e, tree_rmap_item, FALSE)
             IN  { IF si.hang
                   THEN Outcome(si.e, "HANG", "unstable", tree_page,
                                tree_rmap_item, ident)
                   ELSE IF si.err = PKSM_FAULT_SUCCESS
                   THEN Outcome(
                          put_page(
                            stable_tree_append(
                              stable_tree_append(si.e, r, p), r, tree_page),
                            tree_page),
                          PKSM_FAULT_SUCCESS, "unstable", tree_page,
                          tree_rmap_item, ident)
                   ELSE Outcome(put_page(si.e, tree_page), si.err,
                                "unstable", tree_page, tree_rmap_item, ident)
                   : si \in stable_tree_insert(E1, r, p) }

after_stable_search(s, p, r) ==
    IF s.hang THEN {Outcome(s.e, "HANG", "stable", NULL, NULL, FALSE)}
    ELSE IF s.kpage # NULL THEN merge_with_stable(s.e, p, r, s.kpage)
    ELSE UNION {
        IF u.hang
        THEN {Outcome(u.e, "HANG", "unstable", NULL, NULL, FALSE)}
        ELSE IF u.tree_rmap_item # NULL
        THEN merge_with_unstable(u.e, p, r, u.tree_rmap_item, u.tree_page)
        ELSE {Outcome(u.e, PKSM_FAULT_SUCCESS,
                      IF r \in u.e.un THEN "insert" ELSE "none",
                      NULL, NULL, FALSE)}
        : u \in unstable_tree_search_insert(s.e, r, p) }

cmp_and_merge_page(E, p, r, init) ==
    IF ~check_valid_rmap_item(E, r)
    THEN {Outcome(E, PKSM_FAULT_DROP, "invalid", NULL, NULL, FALSE)}
    ELSE IF PageKsm(E, p) \/ in_stable_tree(E, r)
    THEN {Outcome(E, PKSM_FAULT_DROP, "ksm", NULL, NULL, FALSE)}
    ELSE
    LET E1 == remove_rmap_item_from_tree(E, r, FALSE)
        E2 == IF init
              THEN [E1 EXCEPT !.rmap[r].checksum =
                                ChecksumOf[pksm_random_table][E1.page[p].data]]
              ELSE E1
        z == cmp_and_merge_zero_page(E2, p)
    IN  IF z.err = "0"
        THEN {Outcome(z.e, PKSM_FAULT_SUCCESS, "zero", ZERO_PAGE, NULL,
                      is_full_zero(ContentOf(E2, p)))}
        ELSE UNION { after_stable_search(s, p, r)
                     : s \in stable_tree_search(z.e, p) }

(* pksm_drop_rmap_item that leaves page->pksm set *)
pksm_drop_rmap_item_keepptr(E, r) ==
    LET p == E.rmap[r].page
        E1 == IF p # NULL /\ PagePKSM(E, p)
              THEN [E EXCEPT !.page[p].PKSM = FALSE] ELSE E
        E2 == [E1 EXCEPT !.rmap[r].flags = {}]
        E3 == remove_rmap_item_from_tree(E2, r, TRUE)
        E5 == [E3 EXCEPT !.rmap[r].page = NULL]
    IN  pksm_free_rmap_item(E5, r)

(* pksm_drop_rmap_item that does not free the rmap_item *)
pksm_drop_rmap_item_leak(E, r) ==
    LET p == E.rmap[r].page
        E1 == IF p # NULL /\ PagePKSM(E, p)
              THEN [E EXCEPT !.page[p].PKSM = FALSE] ELSE E
        E2 == [E1 EXCEPT !.rmap[r].flags = {}]
        E3 == remove_rmap_item_from_tree(E2, r, TRUE)
        E4 == IF p # NULL THEN [E3 EXCEPT !.page[p].pksm = NULL] ELSE E3
    IN  [E4 EXCEPT !.rmap[r].page = NULL]

pksm_drop_rmap_item(E, r) ==
    LET p == E.rmap[r].page
        E1 == IF p # NULL /\ PagePKSM(E, p)
              THEN [E EXCEPT !.page[p].PKSM = FALSE] ELSE E
        E2 == [E1 EXCEPT !.rmap[r].flags = {}]
        E3 == remove_rmap_item_from_tree(E2, r, TRUE)
        E4 == IF p # NULL THEN [E3 EXCEPT !.page[p].pksm = NULL] ELSE E3
        E5 == [E4 EXCEPT !.rmap[r].page = NULL]
    IN  pksm_free_rmap_item(E5, r)

----------------------------------------------------------------------------
(* Host callbacks *)

pksm_alloc_rmap_item(E, r) ==
    [E EXCEPT !.cnt.ksm_rmap_items = @ + 1,
              !.rmap[r] = [alloc |-> "yes", page |-> NULL, flags |-> {},
                           checksum |-> U32(0, 0), anon_vma |-> NULL,
                           hlist |-> <<>>, mapcount |-> 0]]

(* pksm_add_new_anon_page without the PagePKSM test *)
pksm_add_new_anon_page_nocheck(E, p, r, anon_vma) ==
    IF r = NULL THEN [e |-> E, ret |-> EFAULT]
    ELSE IF p = NULL \/ anon_vma = NULL THEN [e |-> E, ret |-> EFAULT]
    ELSE IF ~PageAnon(E, p) THEN [e |-> E, ret |-> EFAULT]
    ELSE IF PageKsm(E, p) THEN [e |-> E, ret |-> EFAULT]
    ELSE [e |-> [E EXCEPT
                   !.rmap[r].anon_vma = anon_vma,
                   !.page[p].PKSM = TRUE,
                   !.rmap[r].flags = @ \cup {NEWLIST_FLAG, INITCHECKSUM_FLAG},
                   !.page[p].pksm = r,
                   !.rmap[r].page = p,
                   !.nl = Append(@, r)],
          ret |-> "0"]

pksm_add_new_anon_page(E, p, r, anon_vma) ==
    IF r = NULL THEN [e |-> E, ret |-> EFAULT]
    ELSE IF p = NULL \/ anon_vma = NULL THEN [e |-> E, ret |-> EFAULT]
    ELSE IF PagePKSM(E, p) THEN [e |-> E, ret |-> EFAULT]
    ELSE IF ~PageAnon(E, p) THEN [e |-> E, ret |-> EFAULT]
    ELSE IF PageKsm(E, p) THEN [e |-> E, ret |-> EFAULT]
    ELSE [e |-> [E EXCEPT
                   !.rmap[r].anon_vma = anon_vma,
                   !.page[p].PKSM = TRUE,
                   !.rmap[r].flags = @ \cup {NEWLIST_FLAG, INITCHECKSUM_FLAG},
                   !.page[p].pksm = r,
                   !.rmap[r].page = p,
                   !.nl = Append(@, r)],
          ret |-> "0"]

(* pksm_del_anon_page that puts every rmap_item on the delete queue, also
   one that is still on the new or the rescan queue *)
pksm_del_anon_page_nounlink(E, p) ==
    IF ~PagePKSM(E, p) THEN [e |-> E, ret |-> EFAULT]
    ELSE
    LET E1 == [E EXCEPT !.page[p].PKSM = FALSE]
        r == E.page[p].pksm
    IN  IF r = NULL THEN [e |-> E1, ret |-> EFAULT]
        ELSE IF p # E.rmap[r].page THEN [e |-> E1, ret |-> EFAULT]
        ELSE
        LET map == E1.rmap[r].mapcount
            E2 == IF map > 0 THEN pksm_del_sharing_page_counter(E1, p, map)
                  ELSE E1
            E3 == [E2 EXCEPT !.page[p].pksm = NULL, !.rmap[r].page = NULL]
        IN  [e |-> [E3 EXCEPT
                      !.rmap[r].flags = @ \cup {DELLIST_FLAG},
                      !.dl = Append(@, r)],
             ret |-> "0"]

(* pksm_del_anon_page that leaves rmap_item->page set *)
pksm_del_anon_page_keeppage(E, p) ==
    IF ~PagePKSM(E, p) THEN [e |-> E, ret |-> EFAULT]
    ELSE
    LET E1 == [E EXCEPT !.page[p].PKSM = FALSE]
        r == E.page[p].pksm
    IN  IF r = NULL THEN [e |-> E1, ret |-> EFAULT]
        ELSE IF p # E.rmap[r].page THEN [e |-> E1, ret |-> EFAULT]
        ELSE
        LET map == E1.rmap[r].mapcount
            E2 == IF map > 0 THEN pksm_del_sharing_page_counter(E1, p, map)
                  ELSE E1
            E3 == [E2 EXCEPT !.page[p].pksm = NULL]
        IN  IF E3.rmap[r].flags \cap {NEWLIST_FLAG, RESCAN_LIST_FLAG} # {}
            THEN [e |-> pksm_free_rmap_item(
                          [E3 EXCEPT !.nl = SeqRemove(@, r),
                                     !.rl = SeqRemove(@, r),
                                     !.la = SeqRemove(@, r),
                                     !.rmap[r].flags = {}], r),
                  ret |-> "0"]
            ELSE [e |-> [E3 EXCEPT
                           !.rmap[r].flags = @ \cup {DELLIST_FLAG},
                           !.dl = Append(@, r)],
                  ret |-> "0"]

(* pksm_del_anon_page that takes the rmap_item out of its tree itself *)
pksm_del_anon_page_untree(E, p) ==
    IF ~PagePKSM(E, p) THEN [e |-> E, ret |-> EFAULT]
    ELSE
    LET E1 == [E EXCEPT !.page[p].PKSM = FALSE]
        r == E.page[p].pksm
    IN  IF r = NULL THEN [e |-> E1, ret |-> EFAULT]
        ELSE IF p # E.rmap[r].page THEN [e |-> E1, ret |-> EFAULT]
        ELSE
        LET map == E1.rmap[r].mapcount
            E2 == IF map > 0 THEN pksm_del_sharing_page_counter(E1, p, map)
                  ELSE E1
            E3 == [E2 EXCEPT !.page[p].pksm = NULL, !.rmap[r].page = NULL]
        IN  IF E3.rmap[r].flags \cap {NEWLIST_FLAG, RESCAN_LIST_FLAG} # {}
            THEN [e |-> pksm_free_rmap_item(
                          [E3 EXCEPT !.nl = SeqRemove(@, r),
                                     !.rl = SeqRemove(@, r),
                                     !.la = SeqRemove(@, r),
                                     !.rmap[r].flags = {}], r),
                  ret |-> "0"]
            ELSE [e |-> [remove_rmap_item_from_tree(E3, r, TRUE) EXCEPT
                           !.rmap[r].flags = @ \cup {DELLIST_FLAG},
                           !.dl = Append(@, r)],
                  ret |-> "0"]

pksm_del_anon_page(E, p) ==
    IF ~PagePKSM(E, p) THEN [e |-> E, ret |-> EFAULT]
    ELSE
    LET E1 == [E EXCEPT !.page[p].PKSM = FALSE]
        r == E.page[p].pksm
    IN  IF r = NULL THEN [e |-> E1, ret |-> EFAULT]
        ELSE IF p # E.rmap[r].page THEN [e |-> E1, ret |-> EFAULT]
        ELSE
        LET map == E1.rmap[r].mapcount
            E2 == IF map > 0 THEN pksm_del_sharing_page_counter(E1, p, map)
                  ELSE E1
            E3 == [E2 EXCEPT !.page[p].pksm = NULL, !.rmap[r].page = NULL]
        IN  IF E3.rmap[r].flags \cap {NEWLIST_FLAG, RESCAN_LIST_FLAG} # {}
            THEN [e |-> pksm_free_rmap_item(
                          [E3 EXCEPT !.nl = SeqRemove(@, r),
                                     !.rl = SeqRemove(@, r),
                                     !.la = SeqRemove(@, r),
                                     !.rmap[r].flags = {}], r),
                  ret |-> "0"]
            ELSE [e |-> [E3 EXCEPT
                           !.rmap[r].flags = @ \cup {DELLIST_FLAG},
                           !.dl = Append(@, r)],
                  ret |-> "0"]

----------------------------------------------------------------------------
(* State changes *)

Commit(E) ==
    /\ page' = E.page
    /\ pte' = E.pte
    /\ rmap' = E.rmap
    /\ root_stable_tree' = E.st
    /\ root_unstable_tree' = E.un
    /\ unstabletree_checksum_list' = E.ck
    /\ counters' = E.cnt
    /\ new_anon_page_list' = E.nl
    /\ del_anon_page_list' = E.dl
    /\ pksm_rescan_page_list' = E.rl
    /\ l_add' = E.la
    /\ ever_shared' = (ever_shared \/ E.repl # {})

NoOutcome == [path |-> "none", peer |-> NULL, peer_rmap |-> NULL,
              ident |-> FALSE]

Last(op, p, r, ret, o, E) ==
    [op |-> op, page |-> p, rmap |-> r, ret |-> ret, path |-> o.path,
     peer |-> o.peer, peer_rmap |-> o.peer_rmap, ident |-> o.ident,
     repl |-> E.repl, oops |-> E.oops, busy |-> E.locked \cup E.dio]

Min(S) == CHOOSE x \in S : \A y \in S : x <= y

UnbornPages == {p \in Pages : page[p].st = "unborn"}
FreeRmaps == {r \in Rmaps : rmap[r].alloc = "no"}
FreeMaps == {m \in OwnMaps : pte[m].pg = NOPAGE}

(* the threads that update the sharing counters of one merged page: the
   unmappers, one for each of NumUnmappers mappings of the page, ksmd inside
   replace_page, and the thread that frees the page *)
Unmappers == 1..NumUnmappers

ShareReg == [ksm_map |-> 0, mapcount |-> 0, tmp |-> 0]

ShareIdle ==
    [sharing |-> 0, mapcount |-> 0, ptes |-> 0, other |-> 0, live |-> FALSE,
     upc |-> [t \in Unmappers |-> "off"],
     ureg |-> [t \in Unmappers |-> ShareReg],
     spc |-> "off", stmp |-> 0,
     dpc |-> "off", dmap |-> 0, dleft |-> 0, dtmp |-> 0]

InitEngine ==
    /\ page = [p \in Pages |-> [st |-> "unborn", data |-> ZeroContent,
                                PKSM |-> FALSE, pksm |-> NULL, ksm |-> FALSE,
                                stable |-> NULL, av |-> NULL]]
    /\ pte = [m \in Maps |-> [pg |-> NOPAGE, w |-> FALSE]]
    /\ rmap = [r \in Rmaps |-> [alloc |-> "no", page |-> NULL, flags |-> {},
                                checksum |-> U32(0, 0), anon_vma |-> NULL,
                                hlist |-> <<>>, mapcount |-> 0]]
    /\ root_stable_tree = {}
    /\ root_unstable_tree = {}
    /\ new_anon_page_list = <<>>
    /\ del_anon_page_list = <<>>
    /\ pksm_rescan_page_list = <<>>
    /\ unstabletree_checksum_list = <<>>
    /\ counters = [ksm_pages_shared |-> 0, ksm_pages_sharing |-> 0,
                   ksm_pages_unshared |-> 0, ksm_rmap_items |-> 0,
                   ksm_stable_nodes |-> 0, ksm_pages_zero_sharing |-> 0]
    /\ pksm_random_table \in Tables
    /\ l_add = <<>>
    /\ pc = "idle"
    /\ cur = NULL
    /\ curpage = NULL
    /\ init_checksum = FALSE
    /\ writes = 0
    /\ reap_due = {}
    /\ ever_shared = FALSE
    /\ ksm_run = KSM_RUN_MERGE
    /\ run_store_wait = <<>>
    /\ anon_vma_head = [av \in Maps |-> <<av>>]
    /\ vm_flags = [m \in Maps |-> {}]
    /\ stopped_intake = {}
    /\ last = [op |-> "init", page |-> NULL, rmap |-> NULL, ret |-> "0",
               path |-> "none", peer |-> NULL, peer_rmap |-> NULL,
               ident |-> FALSE, repl |-> {}, oops |-> FALSE, busy |-> {}]

Init == InitEngine /\ sh = ShareIdle

ScannerUnchanged == UNCHANGED <<pc, cur, curpage, init_checksum, reap_due>>

RunUnchanged == UNCHANGED <<ksm_run, run_store_wait>>

VmaUnchanged == UNCHANGED <<anon_vma_head, vm_flags, sh>>

(* ksmd_should_run that does not look at ksm_run *)
ksmd_should_run_always == TRUE

ksmd_should_run == ksm_run % 2 = KSM_RUN_MERGE

(* a page announced while ksmd would not run is remembered *)
Intake(p, ret) ==
    stopped_intake' = IF ret = "0" /\ ~ksmd_should_run
                      THEN stopped_intake \cup {p} ELSE stopped_intake

(* the host takes a mapping off the zero frame (unmap or copy-on-write):
   the mapping no longer shares, ksm_pages_zero_sharing goes down by one.
   ksm_pages_zero_sharing is the one counter pksm.c exports (line 294); the
   host code that lowers it is outside pksm.c. *)
host_unmap_zero_page(E) ==
    [E EXCEPT !.cnt.ksm_pages_zero_sharing = @ - 1]

(* page_add_new_anon_rmap: a fresh anonymous page with content c is mapped
   writable at pte slot m and announced with a fresh rmap_item *)
NewAnonPage(E, p, m, c, r) ==
    LET E1 == [E EXCEPT !.page[p].st = "anon", !.page[p].data = c,
                        !.page[p].av = m,
                        !.pte[m] = [pg |-> p, w |-> TRUE]]
    IN  pksm_add_new_anon_page(pksm_alloc_rmap_item(E1, r), p, r, m)

HostNewAnonPage(c) ==
    /\ UnbornPages # {} /\ FreeRmaps # {} /\ FreeMaps # {}
    /\ LET p == Min(UnbornPages)
           r == Min(FreeRmaps)
           m == Min(FreeMaps)
           a == NewAnonPage(Engine, p, m, c, r)
       IN  /\ Commit(a.e)
           /\ last' = Last("add", p, r, a.ret, NoOutcome, a.e)
           /\ Intake(p, a.ret)
    /\ ScannerUnchanged
    /\ RunUnchanged
    /\ VmaUnchanged
    /\ UNCHANGED <<pksm_random_table, writes>>

(* the host announces a page again, with a spare rmap_item *)
HostAddAgain(p) ==
    /\ FreeRmaps # {}
    /\ LET r == Min(FreeRmaps)
           a == pksm_add_new_anon_page(Engine, p, r,
                    IF page[p].av = NULL THEN p ELSE page[p].av)
           E1 == IF a.ret = "0"
                 THEN [a.e EXCEPT !.cnt.ksm_rmap_items = @ + 1,
                                  !.rmap[r].alloc = "yes"]
                 ELSE a.e
       IN  /\ Commit(E1)
           /\ last' = Last("add", p, r, a.ret, NoOutcome, E1)
           /\ Intake(p, a.ret)
    /\ ScannerUnchanged
    /\ RunUnchanged
    /\ VmaUnchanged
    /\ UNCHANGED <<pksm_random_table, writes>>

(* a store through pte slot m: plain store, or a write fault that reuses
   the page (sole mapping of a non-KSM page) or copies it (do_wp_page) *)
HostWrite(m, c) ==
    /\ writes < MaxWrites
    /\ pte[m].pg # NOPAGE
    /\ ContentOf(Engine, pte[m].pg) # c
    /\ LET p == pte[m].pg
           E == Engine
       IN  IF p # ZERO_PAGE /\ (pte[m].w \/
                (~PageKsm(E, p) /\ page_mapcount(E, p) = 1))
           THEN /\ Commit([E EXCEPT !.page[p].data = c, !.pte[m].w = TRUE])
                /\ last' = Last("write", NULL, NULL, "0", NoOutcome, E)
                /\ UNCHANGED stopped_intake
           ELSE /\ UnbornPages # {} /\ FreeRmaps # {}
                /\ LET q == Min(UnbornPages)
                       r == Min(FreeRmaps)
                       E1 == IF p = ZERO_PAGE THEN host_unmap_zero_page(E)
                             ELSE pksm_unmap_sharing_page(E, p)
                       a == NewAnonPage(E1, q, m, c, r)
                   IN  /\ Commit(a.e)
                       /\ last' = Last("cow", NULL, NULL, a.ret, NoOutcome, a.e)
                       /\ Intake(q, a.ret)
    /\ ScannerUnchanged
    /\ RunUnchanged
    /\ VmaUnchanged
    /\ writes' = writes + 1
    /\ UNCHANGED pksm_random_table

(* munmap of pte slot m: page_remove_rmap and the put of the pte's reference *)
HostUnmap(m) ==
    /\ pte[m].pg # NOPAGE
    /\ LET p == pte[m].pg
           E1 == IF p = ZERO_PAGE THEN host_unmap_zero_page(Engine)
                 ELSE pksm_unmap_sharing_page(Engine, p)
           E2 == [E1 EXCEPT !.pte[m] = [pg |-> NOPAGE, w |-> FALSE]]
       IN  /\ Commit(E2)
           /\ last' = Last("unmap", NULL, NULL, "0", NoOutcome, E2)
    /\ ScannerUnchanged
    /\ RunUnchanged
    /\ VmaUnchanged
    /\ UNCHANGED stopped_intake
    /\ UNCHANGED <<pksm_random_table, writes>>

(* the page allocator frees a page whose count fell to zero *)
HostFreePage(p) ==
    /\ page[p].st = "anon"
    /\ page_count(Engine, p) = 0
    /\ LET r == page[p].pksm
           d == pksm_del_anon_page(Engine, p)
           E1 == [d.e EXCEPT !.page[p].st = "freed", !.page[p].ksm = FALSE,
                             !.page[p].stable = NULL,
                             !.page[p].data = ZeroContent,
                             !.page[p].av = NULL]
       IN  /\ Commit(E1)
           /\ last' = Last("del", p, r, d.ret, NoOutcome, E1)
    /\ ScannerUnchanged
    /\ RunUnchanged
    /\ VmaUnchanged
    /\ UNCHANGED stopped_intake
    /\ UNCHANGED <<pksm_random_table, writes>>

----------------------------------------------------------------------------
(* The scanner: ksm_do_scan, cut at its spinlock sections and at the
   cond_resched() points between candidates *)

RECURSIVE Reverse(_)
Reverse(s) == IF s = <<>> THEN <<>> ELSE Reverse(Tail(s)) \o <<Head(s)>>

(* a loop "move; if (scan++ > scan_npages) break" handles at most
   scan_npages + 2 entries *)
LoopCount(len, scan_npages) ==
    IF len < scan_npages + 2 THEN len ELSE scan_npages + 2

(* drain_new_list that leaves the first entry of the new queue behind *)
drain_new_list_skipfirst(E, scan_npages) ==
    IF E.nl = <<>> THEN E
    ELSE LET moved == Tail(E.nl)
         IN  [E EXCEPT
                !.nl = <<Head(E.nl)>>,
                !.la = Reverse(moved) \o @,
                !.rmap = [r \in Rmaps |->
                            IF r \in SeqSet(moved)
                            THEN [@[r] EXCEPT !.flags =
                                    (@ \ {NEWLIST_FLAG}) \cup {INKSM_FLAG}]
                            ELSE @[r]]]

drain_new_list(E, scan_npages) ==
    LET n == LoopCount(Len(E.nl), scan_npages)
        moved == SubSeq(E.nl, 1, n)
    IN  [E EXCEPT
           !.nl = SubSeq(@, n + 1, Len(@)),
           !.la = Reverse(moved) \o @,
           !.rmap = [r \in Rmaps |->
                       IF r \in SeqSet(moved)
                       THEN [@[r] EXCEPT !.flags =
                               (@ \ {NEWLIST_FLAG}) \cup {INKSM_FLAG}]
                       ELSE @[r]]]

RECURSIVE drain_rescan_list(_, _, _)
drain_rescan_list(E, scan, scan_npages) ==
    IF E.rl = <<>> THEN E
    ELSE LET r == Head(E.rl)
             E1 == [E EXCEPT !.rl = Tail(@),
                             !.rmap[r].flags = @ \ {RESCAN_LIST_FLAG}]
         IN  IF DELLIST_FLAG \in E1.rmap[r].flags
             THEN drain_rescan_list(E1, scan, scan_npages)
             ELSE LET E2 == [E1 EXCEPT !.la = Append(@, r)]
                  IN  IF scan > scan_npages THEN E2
                      ELSE drain_rescan_list(E2, scan + 1, scan_npages)

(* pksm_clean_all_rmap_items that frees without unlinking from the trees *)
pksm_clean_all_rmap_items_notree(E, list) ==
    LET Clean(E0, r) ==
          pksm_free_rmap_item(
            [E0 EXCEPT !.rmap[r].flags = @ \ {INKSM_FLAG, DELLIST_FLAG}], r)
        RECURSIVE CleanAll(_, _)
        CleanAll(E0, l) ==
          IF l = <<>> THEN E0 ELSE CleanAll(Clean(E0, Head(l)), Tail(l))
    IN  CleanAll(E, list)

pksm_clean_all_rmap_items(E, list) ==
    LET Clean(E0, r) ==
          pksm_free_rmap_item(
            [remove_rmap_item_from_tree(E0, r, TRUE) EXCEPT
               !.rmap[r].flags = @ \ {INKSM_FLAG, DELLIST_FLAG}], r)
        RECURSIVE CleanAll(_, _)
        CleanAll(E0, l) ==
          IF l = <<>> THEN E0 ELSE CleanAll(Clean(E0, Head(l)), Tail(l))
    IN  CleanAll(E, list)

(* pksm_free_all_rmap_items that frees the rmap_items without taking them
   off del_anon_page_list *)
pksm_free_all_rmap_items_keepqueue(E) ==
    pksm_clean_all_rmap_items(E, E.dl)

pksm_free_all_rmap_items(E) ==
    pksm_clean_all_rmap_items([E EXCEPT !.dl = <<>>], E.dl)

(* pksm_calc_update_pages_num as a function of the counter and the three
   tunables it reads *)
calc_update_pages_num(unshared, pages_to_scan, sleep_millisecs, period) ==
    IF unshared < pages_to_scan THEN unshared
    ELSE (unshared * sleep_millisecs) \div (period * 1000)

pksm_calc_update_pages_num(E) ==
    calc_update_pages_num(E.cnt.ksm_pages_unshared, ksm_thread_pages_to_scan,
                          ksm_thread_sleep_millisecs,
                          pksm_unshared_page_update_period)

(* update_one_checksum that leaves the rmap_item in the unstable tree *)
update_one_checksum_keeptree(E, r) ==
    LET p == E.rmap[r].page
    IN  IF ~check_valid_rmap_item(E, r) THEN E
        ELSE IF ~get_page_unless_zero(E, p) THEN E
        ELSE LET Eg == get_page(E, p)
             IN  IF PageLocked(Eg, p) THEN put_page(Eg, p)
                 ELSE IF check_page_dio(Eg, p) THEN put_page(Eg, p)
                 ELSE LET checksum ==
                            ChecksumOf[pksm_random_table][Eg.page[p].data]
                      IN  IF Eg.rmap[r].checksum # checksum
                          THEN LET E1 == [Eg EXCEPT
                                            !.rmap[r].checksum = checksum]
                                   E3 == [E1 EXCEPT
                                            !.rmap[r].flags =
                                               (@ \ {INITCHECKSUM_FLAG})
                                                  \cup {RESCAN_LIST_FLAG},
                                            !.rl = Append(@, r)]
                               IN  put_page(E3, p)
                          ELSE put_page(Eg, p)

(* one pass of the loop body of pksm_update_unstable_page_checksum *)
update_one_checksum(E, r) ==
    LET p == E.rmap[r].page
    IN  IF ~check_valid_rmap_item(E, r) THEN E
        ELSE IF ~get_page_unless_zero(E, p) THEN E
        ELSE LET Eg == get_page(E, p)
             IN  IF PageLocked(Eg, p) THEN put_page(Eg, p)
                 ELSE IF check_page_dio(Eg, p) THEN put_page(Eg, p)
                 ELSE LET checksum ==
                            ChecksumOf[pksm_random_table][Eg.page[p].data]
                      IN  IF Eg.rmap[r].checksum # checksum
                          THEN LET E1 == [Eg EXCEPT
                                            !.rmap[r].checksum = checksum]
                                   E2 == remove_rmap_item_from_tree(E1, r, FALSE)
                                   E3 == [E2 EXCEPT
                                            !.rmap[r].flags =
                                               (@ \ {INITCHECKSUM_FLAG})
                                                  \cup {RESCAN_LIST_FLAG},
                                            !.rl = Append(@, r)]
                               IN  put_page(E3, p)
                          ELSE put_page(Eg, p)

RECURSIVE update_checksums(_, _, _, _)
update_checksums(E, list, scan, need_scan) ==
    IF list = <<>> THEN E
    ELSE LET E1 == update_one_checksum(E, Head(list))
         IN  IF scan > need_scan THEN E1
             ELSE update_checksums(E1, Tail(list), scan + 1, need_scan)

(* pksm_update_unstable_page_checksum with ksm_thread_pages_to_scan, which
   pages_to_scan_store (line 2451) writes, at the value pages_to_scan *)
update_unstable_page_checksum(E, pages_to_scan) ==
    LET n0 == calc_update_pages_num(E.cnt.ksm_pages_unshared, pages_to_scan,
                                    ksm_thread_sleep_millisecs,
                                    pksm_unshared_page_update_period)
    IN  IF n0 <= 0 THEN E
        ELSE LET need_scan == IF n0 < pages_to_scan THEN n0
                              ELSE pages_to_scan
             IN  update_checksums(E, E.ck, 0, need_scan)

pksm_update_unstable_page_checksum(E) ==
    update_unstable_page_checksum(E, ksm_thread_pages_to_scan)

(* ksm_do_scan, lines 1851-1861: the new queue is drained *)
ScanStartWith(scan_npages) ==
    /\ pc = "idle"
    /\ ksmd_should_run
    /\ LET E == drain_new_list(Engine, scan_npages)
       IN  /\ Commit(E)
           /\ last' = Last("drain_new", NULL, NULL, "0", NoOutcome, E)
    /\ pc' = "drain_rescan"
    /\ reap_due' = {r \in Rmaps : DELLIST_FLAG \in rmap[r].flags
                                    /\ rmap[r].alloc = "yes"}
    /\ UNCHANGED <<cur, curpage, init_checksum, pksm_random_table, writes>>
    /\ RunUnchanged
    /\ VmaUnchanged
    /\ UNCHANGED stopped_intake

ScanStart == ScanStartWith(ksm_thread_pages_to_scan)

(* lines 1865-1877: the rescan queue is drained *)
ScanDrainRescanWith(scan_npages) ==
    /\ pc = "drain_rescan"
    /\ LET E == drain_rescan_list(Engine, 0, scan_npages)
       IN  /\ Commit(E)
           /\ last' = Last("drain_rescan", NULL, NULL, "0", NoOutcome, E)
    /\ pc' = "work"
    /\ UNCHANGED <<cur, curpage, init_checksum, reap_due, pksm_random_table, writes>>
    /\ RunUnchanged
    /\ VmaUnchanged
    /\ UNCHANGED stopped_intake

ScanDrainRescan == ScanDrainRescanWith(ksm_thread_pages_to_scan)

(* lines 1879-1903: the next candidate is unlinked from the working list and
   its page reference is taken *)
ScanPick ==
    /\ pc = "work" /\ l_add # <<>>
    /\ LET r == Head(l_add)
           E0 == [Engine EXCEPT !.la = Tail(@)]
           isdel == DELLIST_FLAG \in rmap[r].flags
           init == INITCHECKSUM_FLAG \in rmap[r].flags
           E1 == IF isdel THEN E0
                 ELSE [E0 EXCEPT !.rmap[r].flags = @ \ {INITCHECKSUM_FLAG}]
           p == rmap[r].page
           go == /\ ~isdel
                 /\ check_valid_rmap_item(E1, r)
                 /\ PageAnon(E1, p)
                 /\ get_page_unless_zero(E1, p)
       IN  /\ Commit(E1)
           /\ init_checksum' = (go /\ init)
           /\ IF go
              THEN /\ pc' = "merge" /\ cur' = r /\ curpage' = p
              ELSE /\ pc' = "work" /\ cur' = NULL /\ curpage' = NULL
           /\ last' = Last("pick", NULL, NULL,
                           IF go THEN "0" ELSE "out", NoOutcome, E1)
    /\ UNCHANGED <<reap_due, pksm_random_table, writes>>
    /\ RunUnchanged
    /\ VmaUnchanged
    /\ UNCHANGED stopped_intake


(* what other kernel threads hold while a scanner step runs: page locks and
   direct-I/O pins on live pages, an input of the step *)
BusyChoices ==
    {b \in [locked : SUBSET Pages, dio : SUBSET Pages] :
        /\ Cardinality(b.locked \cup b.dio) <= MaxBusy
        /\ b.locked \cap b.dio = {}
        /\ \A p \in b.locked : page[p].st = "anon"
        /\ \A p \in b.dio : page[p].st = "anon"
                               /\ \E m \in Maps : pte[m].pg = p}

(* lines 1905-1920 and 1929-1930: the candidate is merged, kept or dropped *)
ScanMerge(busy) ==
    /\ pc = "merge"
    /\ LET E == EngineWith(busy)
       IN
       IF PageLocked(E, curpage) \/ check_page_dio(E, curpage)
       THEN /\ pc' = "requeue"
            /\ last' = Last("busy", curpage, cur, PKSM_FAULT_TRY, NoOutcome,
                            E)
            /\ UNCHANGED <<page, pte, rmap, root_stable_tree,
                           root_unstable_tree, new_anon_page_list,
                           del_anon_page_list, pksm_rescan_page_list,
                           unstabletree_checksum_list, counters, l_add,
                           cur, curpage, ever_shared>>
       ELSE \E o \in cmp_and_merge_page(E, curpage, cur, init_checksum) :
              /\ o.err # "HANG"
              /\ last' = Last("cmp_and_merge_page", curpage, cur, o.err, o,
                              o.e)
              /\ IF o.err = PKSM_FAULT_TRY
                 THEN /\ Commit(o.e)
                      /\ pc' = "requeue"
                      /\ UNCHANGED <<cur, curpage>>
                 ELSE /\ Commit(IF o.err = PKSM_FAULT_DROP
                                THEN pksm_drop_rmap_item(o.e, cur)
                                ELSE o.e)
                      /\ pc' = "work"
                      /\ cur' = NULL /\ curpage' = NULL
    /\ init_checksum' = FALSE
    /\ UNCHANGED <<reap_due, pksm_random_table, writes>>
    /\ RunUnchanged
    /\ VmaUnchanged
    /\ UNCHANGED stopped_intake

(* lines 1922-1930: the candidate goes back to the rescan queue *)
(* ScanRequeue that leaves INITCHECKSUM_FLAG as it is *)
ScanRequeue_noinit ==
    /\ pc = "requeue"
    /\ LET E == [Engine EXCEPT
                   !.rmap[cur].flags = @ \cup {RESCAN_LIST_FLAG},
                   !.rl = Append(@, cur)]
       IN  /\ Commit(E)
           /\ last' = Last("requeue", NULL, NULL, "0", NoOutcome, E)
    /\ pc' = "work" /\ cur' = NULL /\ curpage' = NULL
    /\ UNCHANGED <<init_checksum, reap_due, pksm_random_table, writes>>
    /\ RunUnchanged
    /\ VmaUnchanged
    /\ UNCHANGED stopped_intake

ScanRequeue ==
    /\ pc = "requeue"
    /\ LET E == [Engine EXCEPT
                   !.rmap[cur].flags =
                       @ \cup {INITCHECKSUM_FLAG, RESCAN_LIST_FLAG},
                   !.rl = Append(@, cur)]
       IN  /\ Commit(E)
           /\ last' = Last("requeue", NULL, NULL, "0", NoOutcome, E)
    /\ pc' = "work" /\ cur' = NULL /\ curpage' = NULL
    /\ UNCHANGED <<init_checksum, reap_due, pksm_random_table, writes>>
    /\ RunUnchanged
    /\ VmaUnchanged
    /\ UNCHANGED stopped_intake


(* line 1935: the delete queue is reaped *)
ScanReap ==
    /\ pc = "work" /\ l_add = <<>>
    /\ LET E == pksm_free_all_rmap_items(Engine)
       IN  /\ Commit(E)
           /\ last' = Last("reap", NULL, NULL, "0", NoOutcome, E)
    /\ pc' = "checksum"
    /\ UNCHANGED <<cur, curpage, init_checksum, reap_due, pksm_random_table, writes>>
    /\ RunUnchanged
    /\ VmaUnchanged
    /\ UNCHANGED stopped_intake


(* line 1936: the unstable candidates are re-hashed; the tick ends *)
ScanUpdateChecksumWith(busy, pages_to_scan) ==
    /\ pc = "checksum"
    /\ LET E == update_unstable_page_checksum(EngineWith(busy), pages_to_scan)
       IN  /\ Commit(E)
           /\ last' = Last("update_checksum", NULL, NULL, "0", NoOutcome, E)
    /\ pc' = "idle"
    /\ UNCHANGED <<cur, curpage, init_checksum, reap_due, pksm_random_table,
                   writes>>
    /\ RunUnchanged
    /\ VmaUnchanged
    /\ UNCHANGED stopped_intake

ScanUpdateChecksum(busy) ==
    ScanUpdateChecksumWith(busy, ksm_thread_pages_to_scan)

(* the scanner and the host with ksm_run left at its initial value
   KSM_RUN_MERGE (line 311); NextRun below adds run_store *)
Next ==
    \/ \E c \in Contents : HostNewAnonPage(c)
    \/ \E p \in Pages : HostAddAgain(p)
    \/ \E m \in Maps, c \in Contents : HostWrite(m, c)
    \/ \E m \in Maps : HostUnmap(m)
    \/ \E p \in Pages : HostFreePage(p)
    \/ ScanStart
    \/ ScanDrainRescan
    \/ ScanPick
    \/ \E busy \in BusyChoices : ScanMerge(busy)
    \/ ScanRequeue
    \/ ScanReap
    \/ \E busy \in BusyChoices : ScanUpdateChecksum(busy)

Spec == Init /\ [][Next]_vars

----------------------------------------------------------------------------
(* The run switch: run_store and the parking of ksm_scan_thread.
   ksm_scan_thread holds ksm_thread_mutex from before it tests
   ksmd_should_run until ksm_do_scan has returned, so the mutex is free
   exactly when pc = "idle"; a run_store caller that finds it taken waits. *)

RunFlags == {KSM_RUN_STOP, KSM_RUN_MERGE}

EngineUnchanged ==
    UNCHANGED <<page, pte, rmap, root_stable_tree, root_unstable_tree,
                new_anon_page_list, del_anon_page_list,
                pksm_rescan_page_list, unstabletree_checksum_list, counters,
                l_add, ever_shared, pksm_random_table, writes>>

(* the assignment run_store makes once it holds the mutex *)
run_store(run, flags) == IF run # flags THEN flags ELSE run

(* run_store up to mutex_lock: the flags are parsed and range-checked *)
RunStoreCall(flags) ==
    /\ Len(run_store_wait) < MaxWaiters
    /\ flags <= KSM_RUN_UNMERGE
    /\ run_store_wait' = Append(run_store_wait, flags)
    /\ EngineUnchanged
    /\ VmaUnchanged
    /\ ScannerUnchanged
    /\ UNCHANGED <<ksm_run, stopped_intake, last>>

(* run_store from mutex_lock on: the store, the unlock and the wake-up *)
RunStoreCommit ==
    /\ run_store_wait # <<>>
    /\ pc = "idle"
    /\ ksm_run' = run_store(ksm_run, Head(run_store_wait))
    /\ run_store_wait' = Tail(run_store_wait)
    /\ last' = Last("run_store", NULL, NULL, "0", NoOutcome, Engine)
    /\ EngineUnchanged
    /\ VmaUnchanged
    /\ ScannerUnchanged
    /\ UNCHANGED stopped_intake

NextRun ==
    \/ \E c \in Contents : HostNewAnonPage(c)
    \/ \E m \in Maps : HostUnmap(m)
    \/ \E p \in Pages : HostFreePage(p)
    \/ \E flags \in RunFlags : RunStoreCall(flags)
    \/ RunStoreCommit
    \/ ScanStart
    \/ ScanDrainRescan
    \/ ScanPick
    \/ \E busy \in BusyChoices : ScanMerge(busy)
    \/ ScanRequeue
    \/ ScanReap
    \/ \E busy \in BusyChoices : ScanUpdateChecksum(busy)

(* The scanner's moves as seen on its position and its working list.  In
   NextRun only the scanner changes pc and shortens l_add, so the steps of
   ScannerMoves are exactly the steps of ScanStart, ScanDrainRescan,
   ScanPick (with a usable page), ScanMerge, ScanRequeue, ScanReap and
   ScanUpdateChecksum, and the steps of ScannerPicks those of ScanPick. *)
ScannerMoves ==
    \/ pc = "idle" /\ ksmd_should_run /\ pc' = "drain_rescan"
    \/ pc = "drain_rescan" /\ pc' = "work"
    \/ pc = "work" /\ l_add # <<>> /\ pc' = "merge"
    \/ pc = "merge" /\ pc' \in {"work", "requeue"}
    \/ pc = "requeue" /\ pc' = "work"
    \/ pc = "work" /\ l_add = <<>> /\ pc' = "checksum"
    \/ pc = "checksum" /\ pc' = "idle"

ScannerPicks == pc = "work" /\ l_add # <<>> /\ l_add' = Tail(l_add)

HostFrees ==
    \E p \in Pages :
        /\ page[p].st = "anon"
        /\ page_count(Engine, p) = 0
        /\ page' = [page EXCEPT ![p].st = "freed"]

(* ksm_scan_thread is a kernel thread that loops until it is stopped: it
   does not stay for ever where it can move.  The page allocator frees a
   page whose count fell to zero. *)
FairRun ==
    /\ WF_pc(ScannerMoves)
    /\ WF_l_add(ScannerPicks)
    /\ WF_page(HostFrees)

SpecRun == Init /\ [][NextRun]_vars /\ FairRun

(* The run switch and the page intake with less of the page contents: the
   sampling table is the identity (one outcome of init_random_sampling)
   and every announced page holds one word value throughout (a zero-filled
   page or a page of ones), so that two pages are byte-identical or differ
   in every sampled word.  The actions are those of NextRun. *)
StopContents == {[i \in 1..PageWords |-> w] : w \in 0..WordMax}

InitStop == Init /\ pksm_random_table = [i \in 1..PageWords |-> i - 1]

NextStop ==
    \/ \E c \in StopContents : HostNewAnonPage(c)
    \/ \E m \in Maps : HostUnmap(m)
    \/ \E p \in Pages : HostFreePage(p)
    \/ \E flags \in RunFlags : RunStoreCall(flags)
    \/ RunStoreCommit
    \/ ScanStart
    \/ ScanDrainRescan
    \/ ScanPick
    \/ \E busy \in BusyChoices : ScanMerge(busy)
    \/ ScanRequeue
    \/ ScanReap
    \/ \E busy \in BusyChoices : ScanUpdateChecksum(busy)

SpecStop == InitStop /\ [][NextStop]_vars /\ FairRun

----------------------------------------------------------------------------
(* Fork.  dup_mmap copies a vma that maps an anonymous page: the child's vma
   is chained to the page's anon_vma behind the parent's, both ptes are
   made read-only and the page gains a mapping.  fl are the child vma's
   flags. *)

ForkFlags == {{}, {"VM_DONTEXPAND"}}

HostFork(m, fl) ==
    /\ m \in OwnMaps
    /\ pte[m].pg \in Pages
    /\ ~PageKsm(Engine, pte[m].pg)
    /\ page[pte[m].pg].av = m
    /\ \E m2 \in ForkMaps :
          /\ \A av \in OwnMaps : m2 \notin SeqSet(anon_vma_head[av])
          /\ pte' = [pte EXCEPT ![m].w = FALSE,
                                ![m2] = [pg |-> pte[m].pg, w |-> FALSE]]
          /\ anon_vma_head' = [anon_vma_head EXCEPT ![m] = Append(@, m2)]
          /\ vm_flags' = [vm_flags EXCEPT ![m2] = fl]
    /\ UNCHANGED sh
    /\ last' = Last("fork", pte[m].pg, NULL, "0", NoOutcome, Engine)
    /\ ScannerUnchanged
    /\ RunUnchanged
    /\ UNCHANGED <<page, rmap, root_stable_tree, root_unstable_tree,
                   new_anon_page_list, del_anon_page_list,
                   pksm_rescan_page_list, unstabletree_checksum_list,
                   counters, l_add, ever_shared, pksm_random_table, writes,
                   stopped_intake>>

NextFork ==
    \/ \E c \in Contents : HostNewAnonPage(c)
    \/ \E m \in OwnMaps, fl \in ForkFlags : HostFork(m, fl)
    \/ \E m \in Maps : HostUnmap(m)
    \/ \E p \in Pages : HostFreePage(p)
    \/ ScanStart
    \/ ScanDrainRescan
    \/ ScanPick
    \/ \E busy \in BusyChoices : ScanMerge(busy)
    \/ ScanRequeue
    \/ ScanReap
    \/ \E busy \in BusyChoices : ScanUpdateChecksum(busy)

SpecFork == Init /\ [][NextFork]_vars

----------------------------------------------------------------------------
(* The scanner with pages_to_scan set to SmallPagesToScan through sysfs
   before it starts, running for ever under the fairness of FairRun. *)

NextSmall ==
    \/ \E c \in Contents : HostNewAnonPage(c)
    \/ \E m \in Maps, c \in Contents : HostWrite(m, c)
    \/ \E m \in Maps : HostUnmap(m)
    \/ \E p \in Pages : HostFreePage(p)
    \/ ScanStartWith(SmallPagesToScan)
    \/ ScanDrainRescanWith(SmallPagesToScan)
    \/ ScanPick
    \/ \E busy \in BusyChoices : ScanMerge(busy)
    \/ ScanRequeue
    \/ ScanReap
    \/ \E busy \in BusyChoices :
          ScanUpdateChecksumWith(busy, SmallPagesToScan)

SpecSmall == Init /\ [][NextSmall]_vars /\ FairRun

----------------------------------------------------------------------------
(* Properties *)

TickBoundary == pc = "idle"

LiveRmaps == {r \in Rmaps : rmap[r].alloc = "yes"}

OnQueue(q, r) == \E i \in 1..Len(q) : q[i] = r

QueueCount(r) ==
    Cardinality({i \in 1..Len(new_anon_page_list) :
                    new_anon_page_list[i] = r})
    + Cardinality({i \in 1..Len(pksm_rescan_page_list) :
                    pksm_rescan_page_list[i] = r})
    + Cardinality({i \in 1..Len(del_anon_page_list) :
                    del_anon_page_list[i] = r})

(* r is linked nowhere: no tree, no queue, not the checksum list, not the
   scanner's working list *)
Unlinked(r) ==
    /\ r \notin root_stable_tree
    /\ r \notin root_unstable_tree
    /\ QueueCount(r) = 0
    /\ ~OnQueue(unstabletree_checksum_list, r)
    /\ ~OnQueue(l_add, r)

Merged(o) == o.op = "cmp_and_merge_page"

(* C1: a mapping is redirected to a winner page or to the zero frame only
   when, at the replacement, the victim's mapping is write-protected and the
   victim's content equals the winner's; an equal sampled hash is not
   enough. *)
C1_RedirectOnlyIdentical ==
    \A n \in last.repl : n.same /\ n.wp

C1_Witness ==
    /\ Merged(last)
    /\ last.path = "unstable"
    /\ \E n \in last.repl : n.winner = last.page /\ n.victim = last.peer
                            /\ n.same /\ n.wp
    /\ \E m \in Maps : pte[m].pg = last.page /\ page[last.peer].av = m

(* C2: at a tick boundary the sharing counter of every stable-tree rmap_item
   equals the length of its anchor list. *)
C2_MapcountEqualsAnchors ==
    TickBoundary =>
        \A r \in root_stable_tree :
            rmap[r].mapcount = Len(rmap[r].hlist)

(* C3: at a tick boundary UNSTABLE_FLAG is set exactly on the rmap_items
   linked in the unstable tree, STABLE_FLAG exactly on those linked in the
   stable tree, and no rmap_item carries both or is linked in both. *)
C3_FlagsMatchTrees ==
    TickBoundary =>
        \A r \in Rmaps :
            /\ (UNSTABLE_FLAG \in rmap[r].flags) <=> (r \in root_unstable_tree)
            /\ (STABLE_FLAG \in rmap[r].flags) <=> (r \in root_stable_tree)
            /\ ~(UNSTABLE_FLAG \in rmap[r].flags
                 /\ STABLE_FLAG \in rmap[r].flags)
            /\ ~(r \in root_unstable_tree /\ r \in root_stable_tree)

C3_Witness ==
    /\ TickBoundary
    /\ \E r \in root_stable_tree :
          /\ STABLE_FLAG \in rmap[r].flags
          /\ Len(rmap[r].hlist) = 2
    /\ \E r \in LiveRmaps : rmap[r].flags \cap {STABLE_FLAG, UNSTABLE_FLAG} = {}

(* C4: whatever the interleaving of host add and del calls with the steps of
   a tick, an rmap_item is linked at most once on the new, rescan and delete
   queues together, and no rmap_item on the rescan queue carries
   DELLIST_FLAG. *)
C4_OneQueueAtMost ==
    \A r \in Rmaps :
        /\ QueueCount(r) <= 1
        /\ OnQueue(pksm_rescan_page_list, r)
              => DELLIST_FLAG \notin rmap[r].flags

C4_Witness ==
    /\ pc = "work"
    /\ \E r \in Rmaps :
          /\ OnQueue(l_add, r)
          /\ OnQueue(del_anon_page_list, r)
          /\ DELLIST_FLAG \in rmap[r].flags
    /\ pksm_rescan_page_list # <<>>

(* C5: after every engine operation a page carries PagePKSM exactly when its
   page->pksm pointer is set. *)
C5_FlagIffPointer ==
    \A p \in Pages : page[p].PKSM <=> (page[p].pksm # NULL)

C5_Witness ==
    /\ Merged(last)
    /\ last.ret = PKSM_FAULT_DROP
    /\ page[last.page].st = "anon"
    /\ ~page[last.page].PKSM
    /\ page[last.page].pksm = NULL
    /\ rmap[last.rmap].alloc = "freed"

(* C6: at a tick boundary ksm_pages_unshared is the number of rmap_items
   linked in the unstable tree. *)
C6_UnsharedCountsUnstable ==
    TickBoundary =>
        counters.ksm_pages_unshared = Cardinality(root_unstable_tree)

C6_Witness ==
    /\ TickBoundary
    /\ last.op = "update_checksum"
    /\ counters.ksm_pages_unshared = 0
    /\ pksm_rescan_page_list # <<>>
    /\ \E r \in LiveRmaps : OnQueue(pksm_rescan_page_list, r)
                            /\ rmap[r].checksum # U32(0, 0)

(* C7: pksm_add_new_anon_page on a page that is tracked, not anonymous or
   merged returns -EFAULT and leaves the whole state as it was, so a tracked
   page keeps exactly one rmap_item. *)
C7_AddErrorChangesNothing ==
    /\ \A p \in Pages : \A r \in FreeRmaps : \A av \in Maps :
          LET E0 == pksm_alloc_rmap_item(Engine, r)
              a == pksm_add_new_anon_page(E0, p, r, av)
          IN  (PagePKSM(E0, p) \/ ~PageAnon(E0, p) \/ PageKsm(E0, p))
                 => a.ret = EFAULT /\ a.e = E0
    /\ \A p \in Pages :
          page[p].PKSM =>
              Cardinality({r \in LiveRmaps : rmap[r].page = p}) = 1

C7_Witness ==
    /\ last.op = "add"
    /\ last.ret = EFAULT
    /\ page[last.page].PKSM
    /\ page[last.page].pksm # NULL
    /\ rmap[last.rmap].alloc = "no"

(* C8: when a tick ends, every rmap_item whose page was deleted before the
   tick began is freed and linked nowhere, its anchors are released, and no
   rmap_item refers to a freed page. *)
C8_DeletedGoneAfterTick ==
    TickBoundary =>
        /\ \A r \in reap_due : rmap[r].alloc = "freed" /\ Unlinked(r)
        /\ \A r \in Rmaps : rmap[r].alloc = "freed" => Unlinked(r)
        /\ \A r \in LiveRmaps :
              rmap[r].page # NULL => page[rmap[r].page].st # "freed"

C8_Witness ==
    /\ TickBoundary
    /\ last.op = "update_checksum"
    /\ \E r \in reap_due : rmap[r].alloc = "freed"
    /\ \E p \in Pages : page[p].st = "freed"

Quiescent ==
    /\ TickBoundary
    /\ new_anon_page_list = <<>>
    /\ pksm_rescan_page_list = <<>>
    /\ del_anon_page_list = <<>>

Scanned(p) ==
    /\ page[p].st = "anon"
    /\ page[p].PKSM
    /\ page[p].pksm # NULL
    /\ INKSM_FLAG \in rmap[page[p].pksm].flags
    /\ \E m \in Maps : pte[m].pg = p

(* C9: at quiescence no two scanned, still mapped pages whose content never
   changed are byte-identical (they were merged into one page), and no two
   stable-tree nodes have byte-identical pages. *)
C9_IdenticalPagesMerged ==
    (Quiescent /\ writes = 0) =>
        /\ \A p, q \in Pages :
              (p # q /\ Scanned(p) /\ Scanned(q))
                 => page[p].data # page[q].data
        /\ \A r1, r2 \in root_stable_tree :
              (r1 # r2 /\ rmap[r1].page # NULL /\ rmap[r2].page # NULL)
                 => page[rmap[r1].page].data # page[rmap[r2].page].data

(* C10: when the scanned page's checksum equals that of a stable node or of
   an unstable peer and the two pages differ, cmp_and_merge_page returns
   DROP, redirects nothing, appends no anchor, leaves the peer in the
   unstable tree, keeps the scanned rmap_item out of the stable tree and
   drops it. *)
C10_CollisionDrops ==
    (/\ Merged(last)
     /\ last.path \in {"stable", "unstable"}
     /\ last.peer # NULL
     /\ ~last.ident
     /\ last.ret # PKSM_FAULT_TRY)
        => /\ last.ret = PKSM_FAULT_DROP
           /\ last.repl = {}
           /\ last.rmap \notin root_stable_tree
           /\ rmap[last.rmap].alloc = "freed"
           /\ (last.path = "unstable"
                  => /\ last.peer_rmap \in root_unstable_tree
                     /\ rmap[last.peer_rmap].hlist = <<>>)
           /\ \A r \in LiveRmaps :
                 page[last.page].av \notin SeqSet(rmap[r].hlist)

(* number of times r is linked on the list l *)
Occurrences(l, r) == Cardinality({i \in 1..Len(l) : l[i] = r})

(* C11: pksm_del_anon_page on a tracked page returns 0, clears PagePKSM,
   page->pksm and rmap_item->page; an rmap_item still on the new or the
   rescan queue is unlinked and freed at once, any other gets DELLIST_FLAG
   and is on the delete queue exactly once.  On an untracked page it
   returns -EFAULT and changes nothing. *)
C11_DelClearsAndQueues ==
    \A p \in Pages :
       page[p].st = "anon" =>
          LET r == page[p].pksm
              d == pksm_del_anon_page(Engine, p)
          IN  IF page[p].PKSM
              THEN /\ d.ret = "0"
                   /\ ~d.e.page[p].PKSM
                   /\ d.e.page[p].pksm = NULL
                   /\ d.e.rmap[r].page = NULL
                   /\ IF OnQueue(new_anon_page_list, r)
                         \/ OnQueue(pksm_rescan_page_list, r)
                      THEN /\ d.e.rmap[r].alloc = "freed"
                           /\ Occurrences(d.e.nl, r) = 0
                           /\ Occurrences(d.e.rl, r) = 0
                           /\ Occurrences(d.e.dl, r) = 0
                           /\ Occurrences(d.e.la, r) = 0
                           /\ Occurrences(d.e.ck, r) = 0
                           /\ r \notin d.e.st \cup d.e.un
                           /\ d.e.cnt.ksm_rmap_items
                                 = counters.ksm_rmap_items - 1
                      ELSE /\ d.e.rmap[r].alloc = "yes"
                           /\ DELLIST_FLAG \in d.e.rmap[r].flags
                           /\ Occurrences(d.e.dl, r) = 1
                           /\ d.e.cnt.ksm_rmap_items = counters.ksm_rmap_items
              ELSE d.ret = EFAULT /\ d.e = Engine

C11_Witness ==
    /\ last.op = "del" /\ last.ret = "0"
    /\ rmap[last.rmap].alloc = "freed"
    /\ \E r \in LiveRmaps :
          /\ DELLIST_FLAG \in rmap[r].flags
          /\ Occurrences(del_anon_page_list, r) = 1

(* pksm_zero_random_checksum: the sampled hash of the all-zero page *)
pksm_zero_random_checksum == pksm_calc_zero_page_checksum(HashStrength)

(* the states the scanner calls cmp_and_merge_page in: a candidate is held,
   its page is neither locked nor under direct I/O *)
MergeCalls ==
    IF pc # "merge" THEN {}
    ELSE {EngineWith(b) : b \in {c \in BusyChoices :
                                   /\ curpage \notin c.locked
                                   /\ ~check_page_dio(EngineWith(c), curpage)}}

(* rmap_item->checksum as cmp_and_merge_page compares it *)
StoredHash ==
    IF init_checksum THEN ChecksumOf[pksm_random_table][page[curpage].data]
    ELSE rmap[cur].checksum

MappingsOf(p) == {m \in Maps : pte[m].pg = p}

(* C13: for a tracked all-zero page whose stored hash is the zero hash,
   cmp_and_merge_page returns SUCCESS, points every mapping of the page at
   the zero frame, adds one to ksm_pages_zero_sharing per redirected mapping
   and leaves both trees, the checksum list and ksm_pages_shared as they
   were. *)
C13_ZeroPageRedirected ==
    \A E \in MergeCalls :
       \A o \in cmp_and_merge_page(E, curpage, cur, init_checksum) :
          (/\ check_valid_rmap_item(E, cur)
           /\ is_full_zero(page[curpage].data)
           /\ StoredHash = pksm_zero_random_checksum)
             => /\ o.err = PKSM_FAULT_SUCCESS
                /\ \A m \in MappingsOf(curpage) : o.e.pte[m].pg = ZERO_PAGE
                /\ o.e.cnt.ksm_pages_zero_sharing
                      = counters.ksm_pages_zero_sharing
                          + Cardinality(MappingsOf(curpage))
                /\ o.e.st = root_stable_tree
                /\ o.e.un = root_unstable_tree
                /\ o.e.ck = unstabletree_checksum_list
                /\ o.e.cnt.ksm_pages_shared = counters.ksm_pages_shared

(* C14: when cmp_and_merge_page returns for a page that is all-zero at scan
   time, the page's rmap_item is in neither tree, whatever the zero fast
   path did. *)
C14_ZeroPageInNoTree ==
    \A E \in MergeCalls :
       \A o \in cmp_and_merge_page(E, curpage, cur, init_checksum) :
          (check_valid_rmap_item(E, cur) /\ is_full_zero(page[curpage].data))
             => cur \notin o.e.st \cup o.e.un

(* C15: a page whose stored hash is the zero hash and whose content is not
   all-zero is not consumed by the zero fast path: no mapping of it is
   pointed at the zero frame and cmp_and_merge_page goes on to the tree
   searches. *)
C15_ZeroPathNeedsZeroContent ==
    \A E \in MergeCalls :
       \A o \in cmp_and_merge_page(E, curpage, cur, init_checksum) :
          (/\ check_valid_rmap_item(E, cur)
           /\ ~PageKsm(E, curpage)
           /\ ~is_full_zero(page[curpage].data)
           /\ StoredHash = pksm_zero_random_checksum)
             => /\ o.path \in {"stable", "unstable", "insert", "none"}
                /\ \A m \in MappingsOf(curpage) : o.e.pte[m].pg = curpage

(* C16: no step decreases ksm_pages_shared, ksm_pages_sharing,
   ksm_pages_zero_sharing, ksm_stable_nodes or ksm_rmap_items; only
   ksm_pages_unshared may decrease. *)
C16_CountersMonotonic ==
    [][\A f \in {"ksm_pages_shared", "ksm_pages_sharing",
                  "ksm_pages_zero_sharing", "ksm_stable_nodes",
                  "ksm_rmap_items"} : counters'[f] >= counters[f]]_vars

(* anchors allocated: the stable_node_anon objects on the anchor lists *)
AnchorsOf(rm) ==
    LET RECURSIVE Sum(_)
        Sum(S) == IF S = {} THEN 0
                  ELSE LET r == CHOOSE x \in S : TRUE
                       IN  Len(rm[r].hlist) + Sum(S \ {r})
    IN  Sum(Rmaps)

(* C16, amended: each counter decreases only in a step that releases what
   it counts: ksm_pages_shared when a stable-tree node is erased,
   ksm_pages_sharing when an rmap_item's _mapcount is lowered,
   ksm_stable_nodes when anchors are freed, ksm_rmap_items when an rmap_item
   is freed, ksm_pages_zero_sharing when a mapping is taken off the zero
   frame. *)
C16_DecreaseOnlyOnRelease ==
    [][/\ counters'.ksm_pages_zero_sharing < counters.ksm_pages_zero_sharing
            => \E m \in Maps : pte[m].pg = ZERO_PAGE /\ pte'[m].pg # ZERO_PAGE
       /\ counters'.ksm_pages_shared < counters.ksm_pages_shared
            => \E r \in root_stable_tree : r \notin root_stable_tree'
       /\ counters'.ksm_pages_sharing < counters.ksm_pages_sharing
            => \E r \in Rmaps : rmap'[r].mapcount < rmap[r].mapcount
       /\ counters'.ksm_stable_nodes < counters.ksm_stable_nodes
            => AnchorsOf(rmap') < AnchorsOf(rmap)
       /\ counters'.ksm_rmap_items < counters.ksm_rmap_items
            => \E r \in Rmaps : rmap[r].alloc = "yes"
                                  /\ rmap'[r].alloc = "freed"]_vars

C16_Witness ==
    /\ last.op = "unmap"
    /\ counters.ksm_pages_sharing = 0
    /\ \E r \in root_stable_tree :
          rmap[r].mapcount = 0 /\ Len(rmap[r].hlist) = 2

(* every page that was ever allocated is destroyed, no mapping is left, and
   a scanner tick has run since: queues drained, delete queue reaped *)
AllReleased ==
    /\ Quiescent
    /\ \A p \in Pages : page[p].st # "anon"
    /\ \A m \in Maps : pte[m].pg = NOPAGE

(* C17: once pages were submitted and merged, every mapping was un-shared
   and every page destroyed, and the scanner has run a tick, each counter is
   back at its initial value. *)
C17_RoundTripCounters ==
    AllReleased
       => \A f \in DOMAIN counters : counters[f] = 0

C17_Witness ==
    /\ AllReleased
    /\ ever_shared
    /\ last.op = "update_checksum"
    /\ \A p \in Pages : page[p].st = "freed"
    /\ \A f \in DOMAIN counters : counters[f] = 0

(* C18: after cmp_and_merge_page returned DROP the scanner has dropped the
   candidate: PagePKSM and page->pksm are cleared, the rmap_item is freed and
   linked in no tree, list or queue, and the tree and anchor counters agree
   with what is linked; after SUCCESS or KEEP the rmap_item is still the
   page's, and the scanner holds no page reference. *)
C18_DropDropsAll ==
    Merged(last) =>
       /\ last.ret = PKSM_FAULT_DROP =>
             /\ ~page[last.page].PKSM
             /\ page[last.page].pksm = NULL
             /\ rmap[last.rmap].alloc = "freed"
             /\ Unlinked(last.rmap)
             /\ counters.ksm_pages_unshared = Cardinality(root_unstable_tree)
             /\ counters.ksm_pages_shared = Cardinality(root_stable_tree)
             /\ counters.ksm_stable_nodes = AnchorsOf(rmap)
             /\ counters.ksm_rmap_items = Cardinality(LiveRmaps)
             /\ curpage = NULL
       /\ last.ret \in {PKSM_FAULT_SUCCESS, PKSM_FAULT_KEEP} =>
             /\ rmap[last.rmap].alloc = "yes"
             /\ rmap[last.rmap].page = last.page
             /\ page[last.page].pksm = last.rmap
             /\ page[last.page].PKSM
             /\ curpage = NULL

C18_Witness ==
    /\ Merged(last)
    /\ last.ret = PKSM_FAULT_DROP
    /\ last.path = "unstable"
    /\ rmap[last.rmap].alloc = "freed"
    /\ last.peer_rmap \in root_unstable_tree

----------------------------------------------------------------------------
QueuedWhileStopped(p) ==
    /\ p \in stopped_intake
    /\ page[p].PKSM
    /\ OnQueue(new_anon_page_list, page[p].pksm)

ProcessedOrDestroyed(p) ==
    \/ Merged(last) /\ last.page = p
    \/ page[p].st = "freed"
    \/ ~page[p].PKSM

RunDisturbed == ~ksmd_should_run \/ run_store_wait # <<>>

FoundBusy == last.op = "busy"

(* C12: pages announced while the run switch is at STOP are not lost: once
   the switch stays at MERGE, under a fair scanner, each of them is handed
   to cmp_and_merge_page or is destroyed, and the new queue empties. *)
C12_StoppedIntakeScanned ==
    (<>[]~RunDisturbed /\ <>[]~FoundBusy) =>
        /\ \A p \in Pages : QueuedWhileStopped(p) ~> ProcessedOrDestroyed(p)
        /\ (new_anon_page_list # <<>>) ~> (new_anon_page_list = <<>>)

C12_Witness ==
    /\ Merged(last)
    /\ last.page \in stopped_intake
    /\ ksmd_should_run
    /\ new_anon_page_list = <<>>

----------------------------------------------------------------------------
(* a run_store(KSM_RUN_STOP) has been called and has not returned *)
StopRequested ==
    run_store_wait # <<>> /\ Head(run_store_wait) = KSM_RUN_STOP

(* C20 as stated: once a stop has been written while the scanner is between
   two candidates of its working list, the scanner takes no further
   candidate and runs no maintenance phase. *)
C20_StopParksAfterCandidate ==
    [][(StopRequested /\ pc = "work") => (pc' = "work" /\ l_add' = l_add)]_vars

(* C20: a stop written during a tick takes effect only when the tick has
   ended: ksm_run changes only while the scanner is outside ksm_do_scan, the
   scanner is outside ksm_do_scan whenever ksm_run is not MERGE, and it
   leaves nothing on its working list when it parks. *)
C20_StopWaitsForTick ==
    [][/\ (ksm_run' # ksm_run => pc = "idle" /\ pc' = "idle")
       /\ (ksm_run # KSM_RUN_MERGE => pc = "idle" /\ pc' = "idle")
       /\ (pc = "idle" => l_add = <<>> /\ cur = NULL /\ curpage = NULL)
       /\ (StopRequested /\ pc = "work" /\ l_add # <<>> /\ pc' # "work"
             => pc' = "merge" /\ l_add' = Tail(l_add))]_vars

C20_Witness ==
    /\ StopRequested
    /\ ksm_run = KSM_RUN_MERGE
    /\ pc = "checksum"
    /\ last.op = "reap"
    /\ stopped_intake # {}

----------------------------------------------------------------------------
(* the same state once the other threads have dropped their page locks and
   direct-I/O pins *)
Unbusy(E) == [E EXCEPT !.locked = {}, !.dio = {}]

(* C19: when cmp_and_merge_page returns TRY on a candidate whose matching
   peer is byte-identical, the retry of that candidate (checksum computed
   anew, locks and pins gone, the peer still in its tree with the same
   content) returns SUCCESS, and for an unstable pair ksm_pages_shared ends
   one above its value before the first attempt. *)
C19_RetryAfterTryMerges ==
    \A E \in MergeCalls :
      \A o \in cmp_and_merge_page(E, curpage, cur, init_checksum) :
        LET R == Unbusy(o.e)
        IN  (/\ o.err = PKSM_FAULT_TRY
             /\ o.peer # NULL
             /\ o.ident
             /\ o.peer_rmap \in R.un \cup R.st
             /\ ContentOf(R, o.peer) = ContentOf(R, curpage)
             /\ MappingsOf(curpage) # {})
               => \A o2 \in cmp_and_merge_page(R, curpage, cur, TRUE) :
                     /\ o2.err = PKSM_FAULT_SUCCESS
                     /\ o.path = "unstable" =>
                           o2.e.cnt.ksm_pages_shared =
                               E.cnt.ksm_pages_shared + 1

----------------------------------------------------------------------------
(* the states in which cmp_and_merge_page starts its tree descents: the
   scanned rmap_item is out of the trees, its checksum is set and the zero
   fast path has declined *)
SearchCalls ==
    UNION {
      IF check_valid_rmap_item(E, cur) /\ ~PageKsm(E, curpage)
            /\ ~in_stable_tree(E, cur)
      THEN LET E1 == remove_rmap_item_from_tree(E, cur, FALSE)
               E2 == IF init_checksum
                     THEN [E1 EXCEPT !.rmap[cur].checksum =
                             ChecksumOf[pksm_random_table][
                                 E1.page[curpage].data]]
                     ELSE E1
               z == cmp_and_merge_zero_page(E2, curpage)
           IN  IF z.err = "0" THEN {} ELSE {z.e}
      ELSE {}
      : E \in MergeCalls }

(* C21: a tree descent that met a node whose page reference could not be
   taken does not end, with no match or DROP, while that node is still in
   the tree: the node has been evicted. *)
C21_StaleNodeEvicted ==
    \A S \in SearchCalls :
       /\ \A s \in stable_tree_search(S, curpage) :
             /\ (~s.hang /\ s.stale # NULL) => s.stale \notin s.e.st
             /\ (~s.hang /\ s.kpage = NULL) =>
                   \A u \in unstable_tree_search_insert(s.e, cur, curpage) :
                      (~u.hang /\ u.stale # NULL) => u.stale \notin u.e.un
       /\ \A si \in stable_tree_insert(S, cur, curpage) :
             (~si.hang /\ si.stale # NULL) => si.stale \notin si.e.st

----------------------------------------------------------------------------
(* The reverse-map walks over a KSM page.  The host's structures and
   operation are inputs: chains[a] is the list of vmas chained on anon_vma
   a, op[i] the status that the i-th invocation of the operation returns,
   gone the number of invocations after which the page is mapped nowhere.
   A walk returns its status, the invocations it made in order, each as
   <<position on the anchor list, vma>>, and the number of passes over the
   anchor list it began. *)

SWAP_SUCCESS == "SWAP_SUCCESS"
SWAP_AGAIN == "SWAP_AGAIN"
SWAP_FAIL == "SWAP_FAIL"

(* walk_chain that goes on after a status other than SWAP_AGAIN *)
RECURSIVE walk_chain_nostop(_, _, _, _, _)
walk_chain_nostop(op, gone, i, chain, w) ==
    IF chain = <<>> THEN w
    ELSE LET n == Len(w.calls) + 1
             w1 == [w EXCEPT !.ret = op[n],
                             !.calls = Append(@, <<i, Head(chain)>>)]
         IN  IF n >= gone
             THEN [w1 EXCEPT !.out = TRUE]
             ELSE walk_chain_nostop(op, gone, i, Tail(chain), w1)

(* list_for_each_entry(vmac, &anon_vma->head, same_anon_vma) *)
RECURSIVE walk_chain(_, _, _, _, _)
walk_chain(op, gone, i, chain, w) ==
    IF chain = <<>> THEN w
    ELSE LET n == Len(w.calls) + 1
             w1 == [w EXCEPT !.ret = op[n],
                             !.calls = Append(@, <<i, Head(chain)>>)]
         IN  IF w1.ret # SWAP_AGAIN \/ n >= gone
             THEN [w1 EXCEPT !.out = TRUE]
             ELSE walk_chain(op, gone, i, Tail(chain), w1)

(* hlist_for_each_entry(stable_anon, hlist, &rmap_item->hlist, hlist) *)
RECURSIVE walk_anchors(_, _, _, _, _, _)
walk_anchors(op, gone, chains, hl, i, w) ==
    IF i > Len(hl) THEN w
    ELSE LET w0 == [w EXCEPT !.locks = Append(@, <<"acq", "anon_vma">>)]
             w1 == walk_chain(op, gone, i, chains[hl[i]], w0)
             w2 == [w1 EXCEPT !.locks = Append(@, <<"rel", "anon_vma">>)]
         IN  IF w2.out THEN w2
             ELSE walk_anchors(op, gone, chains, hl, i + 1, w2)

walk_twice(op, gone, chains, hl) ==
    LET w0 == [ret |-> SWAP_AGAIN, calls |-> <<>>, out |-> FALSE,
               passes |-> 1, locks |-> <<>>]
        w1 == walk_anchors(op, gone, chains, hl, 1, w0)
    IN  IF w1.out THEN w1
        ELSE walk_anchors(op, gone, chains, hl, 1,
                          [w1 EXCEPT !.passes = 2])

rmap_walk_ksm(E, p, chains, op) ==
    LET r == page_stable_rmap_item(E, p)
    IN  IF r = NULL
        THEN [ret |-> SWAP_AGAIN, calls |-> <<>>, out |-> FALSE,
              passes |-> 0, locks |-> <<>>]
        ELSE walk_twice(op, Len(op) + 1, chains, E.rmap[r].hlist)

try_to_unmap_ksm(E, p, chains, op, gone) ==
    LET r == page_stable_rmap_item(E, p)
    IN  IF r = NULL
        THEN [ret |-> SWAP_FAIL, calls |-> <<>>, out |-> FALSE,
              passes |-> 0, locks |-> <<>>]
        ELSE walk_twice(op, gone, chains, E.rmap[r].hlist)

(* the inputs of a walk over the anchor list hl: the anon_vmas in forked
   have a second vma on their chain *)
ChainChoices(hl) ==
    {[a \in SeqSet(hl) |->
        IF a \in forked THEN <<(<<a, 0>>), (<<a, 1>>)>> ELSE <<(<<a, 0>>)>>]
     : forked \in SUBSET SeqSet(hl)}

RECURSIVE OnePass(_, _, _)
OnePass(chains, hl, i) ==
    IF i > Len(hl) THEN <<>>
    ELSE [j \in 1..Len(chains[hl[i]]) |-> <<i, chains[hl[i]][j]>>]
            \o OnePass(chains, hl, i + 1)

(* every invocation returns SWAP_AGAIN, but for the k-th, which returns s *)
OpChoices(n) ==
    {[i \in 1..n |-> IF i = k THEN s ELSE SWAP_AGAIN]
     : k \in 1..(n + 1), s \in {SWAP_SUCCESS, SWAP_FAIL}}

WalkOk(w, op, order) ==
    /\ Len(w.calls) <= Len(order)
    /\ w.calls = SubSeq(order, 1, Len(w.calls))
    /\ w.passes <= 2
    /\ \A j \in 1..Len(w.calls) :
          op[j] # SWAP_AGAIN => (j = Len(w.calls) /\ w.ret = op[j])
    /\ (\A j \in 1..Len(w.calls) : op[j] = SWAP_AGAIN) => w.ret = SWAP_AGAIN
    /\ \A j \in 1..Len(order) :
          (op[j] # SWAP_AGAIN /\ \A k \in 1..(j - 1) : op[k] = SWAP_AGAIN)
              => Len(w.calls) <= j

MergedPages ==
    {p \in Pages : /\ page[p].st = "anon"
                   /\ PageKsm(Engine, p)
                   /\ page_stable_rmap_item(Engine, p) # NULL}

(* C22: over a merged page, rmap_walk_ksm and try_to_unmap_ksm invoke the
   operation on the vmas of each anchor in anchor-list order, make no
   invocation after one that returned a status other than SWAP_AGAIN and
   return that status, return SWAP_AGAIN when every invocation returned
   SWAP_AGAIN, and pass over the anchor list at most twice. *)
C22_WalkStopsAtFirstStatus ==
    \A p \in MergedPages :
       LET hl == rmap[page_stable_rmap_item(Engine, p)].hlist
       IN  \A chains \in ChainChoices(hl) :
             LET pass == OnePass(chains, hl, 1)
                 order == pass \o pass
             IN  \A op \in OpChoices(Len(order)) :
                   /\ WalkOk(rmap_walk_ksm(Engine, p, chains, op), op, order)
                   /\ \A gone \in 1..(Len(order) + 1) :
                         WalkOk(try_to_unmap_ksm(Engine, p, chains, op, gone),
                                op, order)

C22_Witness ==
    \E p \in MergedPages :
       LET hl == rmap[page_stable_rmap_item(Engine, p)].hlist
           chains == [a \in SeqSet(hl) |-> <<(<<a, 0>>)>>]
           op == [i \in 1..(2 * Len(hl)) |->
                    IF i = 2 THEN SWAP_FAIL ELSE SWAP_AGAIN]
           w == rmap_walk_ksm(Engine, p, chains, op)
       IN  /\ Len(hl) = 2
           /\ w.ret = SWAP_FAIL
           /\ w.calls = <<(<<1, (<<hl[1], 0>>)>>), (<<2, (<<hl[2], 0>>)>>)>>
           /\ try_to_unmap_ksm(Engine, p, chains,
                  [i \in 1..4 |-> SWAP_AGAIN], 5).passes = 2

(* Lock events.  A path is the sequence of its lock acquisitions and
   releases; the locks are the anon_vma lock, pksm_np_list_lock, the page
   lock and the page-table lock. *)
RECURSIVE WalkLocksFrom(_, _, _, _, _, _)
WalkLocksFrom(E, p, ms, i, kpage, zero) ==
    IF i > Len(ms) THEN <<>>
    ELSE IF ~vma_can_enter(ms[i]) THEN <<>>
    ELSE LET r1 == rmap_one(E, p, ms[i], kpage, zero)
             ptl == IF E.pte[ms[i]].pg = p
                    THEN <<(<<"acq", "ptl">>), (<<"rel", "ptl">>)>>
                    ELSE <<>>
         IN  IF r1.err # PKSM_FAULT_SUCCESS THEN ptl
             ELSE ptl \o WalkLocksFrom(r1.e, p, ms, i + 1, kpage, zero)

(* pksm_rmap_walk: page_lock_anon_vma, the walk, page_unlock_anon_vma *)
pksm_rmap_walk_locks(E, p, kpage, zero) ==
    IF ~PageAnon(E, p) \/ PageKsm(E, p) \/ page_mapcount(E, p) = 0
    THEN <<>>
    ELSE <<(<<"acq", "anon_vma">>)>>
            \o WalkLocksFrom(E, p, AnonVmaMaps(page_rmapping(E, p)), 1,
                             kpage, zero)
            \o <<(<<"rel", "anon_vma">>)>>

(* trylock_page, pksm_rmap_walk, unlock_page *)
try_to_merge_one_anon_page_locks(E, p, kpage) ==
    IF p = kpage \/ ~PageAnon(E, p) \/ PageLocked(E, p) THEN <<>>
    ELSE <<(<<"acq", "page">>)>>
            \o pksm_rmap_walk_locks(E, p, kpage, FALSE)
            \o <<(<<"rel", "page">>)>>

try_to_merge_zero_page_locks(E, p) ==
    IF ~PageAnon(E, p) \/ PageLocked(E, p) THEN <<>>
    ELSE <<(<<"acq", "page">>)>>
            \o pksm_rmap_walk_locks(E, p, ZERO_PAGE, TRUE)
            \o <<(<<"rel", "page">>)>>

(* the sections under pksm_np_list_lock: the queue appends of the host
   callbacks, the two drains, the requeue of a busy candidate and the
   requeue of a re-hashed one; none takes a lock or waits inside *)
np_list_locks == <<(<<"acq", "np_list">>), (<<"rel", "np_list">>)>>

(* the states the scanner calls cmp_and_merge_zero_page in *)
ZeroCalls ==
    UNION {
      IF check_valid_rmap_item(E, cur) /\ ~PageKsm(E, curpage)
            /\ ~in_stable_tree(E, cur)
      THEN LET E1 == remove_rmap_item_from_tree(E, cur, FALSE)
           IN  {IF init_checksum
                THEN [E1 EXCEPT !.rmap[cur].checksum =
                        ChecksumOf[pksm_random_table][E1.page[curpage].data]]
                ELSE E1}
      ELSE {}
      : E \in MergeCalls }

(* no anon_vma lock is taken under a page lock, no page lock is taken under
   pksm_np_list_lock *)
RECURSIVE OrderOk(_, _)
OrderOk(held, evs) ==
    IF evs = <<>> THEN TRUE
    ELSE LET ev == Head(evs)
         IN  IF ev[1] = "acq"
             THEN /\ ~(ev[2] = "anon_vma" /\ "page" \in held)
                  /\ ~(ev[2] = "page" /\ "np_list" \in held)
                  /\ OrderOk(held \cup {ev[2]}, Tail(evs))
             ELSE OrderOk(held \ {ev[2]}, Tail(evs))

(* C23: on every path the locks are taken in the documented order: no
   anon_vma lock (order 2) is acquired while a page lock (order 5) is held,
   and no page lock is acquired under pksm_np_list_lock (order 4); in the
   merge walk, in the zero fast path, in the reverse-map walks (entered
   with the page locked) and in the sections under pksm_np_list_lock. *)
C23_LockOrder ==
    /\ OrderOk({}, np_list_locks)
    /\ \A Z \in ZeroCalls :
          find_zero_page_hash(Z, curpage)
             => OrderOk({}, try_to_merge_zero_page_locks(Z, curpage))
    /\ \A S \in SearchCalls :
          \A s \in stable_tree_search(S, curpage) :
             /\ (~s.hang /\ s.kpage # NULL)
                   => OrderOk({}, try_to_merge_one_anon_page_locks(
                                      s.e, curpage, s.kpage))
             /\ (~s.hang /\ s.kpage = NULL)
                   => \A u \in unstable_tree_search_insert(s.e, cur, curpage) :
                         (~u.hang /\ u.tree_rmap_item # NULL)
                            => OrderOk({}, try_to_merge_one_anon_page_locks(
                                               u.e, curpage, NULL))
    /\ \A p \in MergedPages :
          LET hl == rmap[page_stable_rmap_item(Engine, p)].hlist
              chains == [a \in SeqSet(hl) |-> <<(<<a, 0>>)>>]
              op == [i \in 1..(2 * Len(hl)) |-> SWAP_AGAIN]
          IN  OrderOk({"page"},
                      rmap_walk_ksm(Engine, p, chains, op).locks)

(* the trees, the checksum list and the anchor lists of F are those of E *)
FrameKept(E, F) ==
    /\ F.st = E.st
    /\ F.un = E.un
    /\ F.ck = E.ck
    /\ \A r \in Rmaps : F.rmap[r].hlist = E.rmap[r].hlist
    /\ \A r \in E.st \cup E.un : F.rmap[r].checksum = E.rmap[r].checksum

(* C24: in every state, also while ksm_run is KSM_RUN_STOP, the host
   callbacks pksm_add_new_anon_page and pksm_del_anon_page leave the stable
   tree, the unstable tree, the checksum list and every anchor list as they
   were, whatever page they are called with. *)
C24_CallbacksLeaveTrees ==
    /\ \A p \in {q \in Pages : page[q].st = "anon"} :
          FrameKept(Engine, pksm_del_anon_page(Engine, p).e)
    /\ \A p \in {q \in Pages : page[q].st = "anon"} \cup {NULL},
          r \in FreeRmaps \cup {NULL}, av \in Maps \cup {NULL} :
          LET E1 == IF r = NULL THEN Engine
                    ELSE pksm_alloc_rmap_item(Engine, r)
          IN  FrameKept(E1, pksm_add_new_anon_page(E1, p, r, av).e)

C24_Witness ==
    /\ ksm_run = KSM_RUN_STOP
    /\ root_stable_tree \cup root_unstable_tree # {}
    /\ last.op = "del" /\ last.ret = "0"
    /\ last.rmap \in root_stable_tree \cup root_unstable_tree
    /\ del_anon_page_list # <<>>
    /\ \E r \in FreeRmaps, p \in Pages :
          /\ page[p].st = "anon"
          /\ pksm_add_new_anon_page(pksm_alloc_rmap_item(Engine, r),
                                    p, r, p).ret = EFAULT

(* C25: at every tick boundary, every rmap_item in the stable tree whose
   page is not destroyed has a page that is marked KSM and whose mapping is
   stamped with that rmap_item, and every pte that maps the page is
   read-only, also when the merge walk skipped a mapping of the page. *)
C25_StablePagesProtected ==
    TickBoundary =>
        \A r \in root_stable_tree :
            rmap[r].page # NULL =>
                /\ PageKsm(Engine, rmap[r].page)
                /\ page_stable_rmap_item(Engine, rmap[r].page) = r
                /\ \A m \in Maps : pte[m].pg = rmap[r].page => ~pte[m].w

C25_Witness ==
    /\ TickBoundary
    /\ \E r \in root_stable_tree :
          /\ rmap[r].page # NULL
          /\ \E m \in OwnMaps : pte[m].pg = rmap[r].page
          /\ \E m \in ForkMaps :
                pte[m].pg = rmap[r].page /\ ~vma_can_enter(m)

(* the calls of pksm_rmap_walk the scanner makes on its candidate: from the
   zero fast path, and as the first step of try_to_merge_two_pages *)
WalkCalls ==
    {[e |-> Z, p |-> curpage, kpage |-> ZERO_PAGE, zero |-> TRUE] :
        Z \in {E \in ZeroCalls : /\ find_zero_page_hash(E, curpage)
                                 /\ PageAnon(E, curpage)
                                 /\ ~PageLocked(E, curpage)}}
    \cup
    UNION { UNION { UNION {
        IF ~s.hang /\ s.kpage = NULL /\ ~u.hang /\ u.tree_rmap_item # NULL
              /\ PageAnon(u.e, curpage) /\ ~PageLocked(u.e, curpage)
        THEN {[e |-> u.e, p |-> curpage, kpage |-> NULL, zero |-> FALSE]}
        ELSE {}
        : u \in IF ~s.hang /\ s.kpage = NULL
                THEN unstable_tree_search_insert(s.e, cur, curpage)
                ELSE {} }
        : s \in stable_tree_search(S, curpage) }
        : S \in SearchCalls }

(* the walk comes to a vma that vma_can_enter refuses *)
RECURSIVE ReachesIneligible(_, _, _, _, _, _)
ReachesIneligible(E, p, ms, i, kpage, zero) ==
    /\ i <= Len(ms)
    /\ \/ ~vma_can_enter(ms[i])
       \/ LET r1 == rmap_one(E, p, ms[i], kpage, zero)
          IN  /\ r1.err = PKSM_FAULT_SUCCESS
              /\ ReachesIneligible(r1.e, p, ms, i + 1, kpage, zero)

(* rmap_one returns PKSM_FAULT_SUCCESS on every vma of the chain *)
RECURSIVE AllSucceed(_, _, _, _, _, _)
AllSucceed(E, p, ms, i, kpage, zero) ==
    \/ i > Len(ms)
    \/ LET r1 == rmap_one(E, p, ms[i], kpage, zero)
       IN  /\ r1.err = PKSM_FAULT_SUCCESS
           /\ AllSucceed(r1.e, p, ms, i + 1, kpage, zero)

(* C26: pksm_rmap_walk returns PKSM_FAULT_DROP whenever the page has no
   mapping or the walk comes to an ineligible vma, whatever the vmas before
   it returned, and returns PKSM_FAULT_SUCCESS only if rmap_one returned
   PKSM_FAULT_SUCCESS on every vma of the chain. *)
C26_WalkDropsOnIneligible ==
    \A c \in WalkCalls :
       LET w == pksm_rmap_walk(c.e, c.p, c.kpage, c.zero)
           ms == AnonVmaMaps(page_rmapping(c.e, c.p))
       IN  /\ (page_mapcount(c.e, c.p) = 0
                  \/ ReachesIneligible(c.e, c.p, ms, 1, c.kpage, c.zero))
              => w.err = PKSM_FAULT_DROP
           /\ w.err = PKSM_FAULT_SUCCESS
              => AllSucceed(c.e, c.p, ms, 1, c.kpage, c.zero)

(* the values of scan_npages that phase 1 is tried with *)
BudgetValues == 0..MaxBudget

(* C27: for every scan budget, 0 included, and every length of the queues,
   phase 1 of ksm_do_scan moves at most scan_npages rmap_items from the new
   queue and at most scan_npages from the rescan queue to the working list;
   each moved rmap_item has NEWLIST_FLAG and RESCAN_LIST_FLAG cleared and
   INKSM_FLAG set; a rescan entry flagged DELLIST_FLAG is unlinked and does
   not enter the working list. *)
C27_DrainWithinBudget ==
    TickBoundary =>
       \A b \in BudgetValues :
          LET E1 == drain_new_list(Engine, b)
              E2 == drain_rescan_list(E1, 0, b)
              from_new == Len(Engine.nl) - Len(E1.nl)
              from_rescan == Len(E2.la) - Len(E1.la)
          IN  /\ from_new <= b
              /\ from_rescan <= b
              /\ Len(E1.la) - Len(Engine.la) = from_new
              /\ \A r \in SeqSet(E2.la) \ SeqSet(Engine.la) :
                    /\ E2.rmap[r].flags
                          \cap {NEWLIST_FLAG, RESCAN_LIST_FLAG} = {}
                    /\ INKSM_FLAG \in E2.rmap[r].flags
              /\ \A r \in SeqSet(Engine.rl) \ SeqSet(E2.rl) :
                    DELLIST_FLAG \in Engine.rmap[r].flags
                       => r \notin SeqSet(E2.la)

(* C28: a candidate that was found locked, that failed the direct-I/O
   check or for which cmp_and_merge_page returned PKSM_FAULT_TRY is put on
   the rescan queue exactly once, with INITCHECKSUM_FLAG and
   RESCAN_LIST_FLAG set; it is linked in neither tree, and the scanner's
   reference to its page is released. *)
C28_BusyCandidateRequeued ==
    [][(pc = "requeue" /\ pc' = "work") =>
          /\ Occurrences(pksm_rescan_page_list', cur) = 1
          /\ {INITCHECKSUM_FLAG, RESCAN_LIST_FLAG} \subseteq rmap'[cur].flags
          /\ cur \notin root_stable_tree' \cup root_unstable_tree'
          /\ ~OnQueue(unstabletree_checksum_list', cur)
          /\ ~OnQueue(l_add', cur)
          /\ curpage' = NULL]_vars

C28_Witness ==
    /\ last.op = "requeue"
    /\ pc = "work"
    /\ \E r \in SeqSet(pksm_rescan_page_list) :
          /\ {INITCHECKSUM_FLAG, RESCAN_LIST_FLAG} \subseteq rmap[r].flags
          /\ rmap[r].page # NULL
          /\ PageKsm(Engine, rmap[r].page)

(* the states pksm_update_unstable_page_checksum runs in *)
ChecksumCalls ==
    IF pc # "checksum" THEN {} ELSE {EngineWith(b) : b \in BusyChoices}

(* the loop body re-hashes the page of r: the rmap_item is valid, the page
   reference is taken, the page is neither locked nor under direct I/O *)
Rehashed(E, r) ==
    /\ check_valid_rmap_item(E, r)
    /\ get_page_unless_zero(E, E.rmap[r].page)
    /\ ~PageLocked(E, E.rmap[r].page)
    /\ ~check_page_dio(get_page(E, E.rmap[r].page), E.rmap[r].page)

NewHash(E, r) == ChecksumOf[pksm_random_table][E.page[E.rmap[r].page].data]

(* what a changed hash does to r, the flag INITCHECKSUM_FLAG apart *)
RequeuedForRehash(E, F, r) ==
    /\ r \notin F.un
    /\ ~OnQueue(F.ck, r)
    /\ F.cnt.ksm_pages_unshared = E.cnt.ksm_pages_unshared - 1
    /\ Occurrences(F.rl, r) = 1
    /\ F.rl = Append(E.rl, r)
    /\ RESCAN_LIST_FLAG \in F.rmap[r].flags
    /\ F.rmap[r].checksum = NewHash(E, r)

(* C29 as stated: when the re-hash of an entry of the checksum list differs
   from the stored hash, the rmap_item leaves the unstable tree and the
   checksum list, ksm_pages_unshared goes down by one, and the rmap_item is
   appended to the rescan queue with RESCAN_LIST_FLAG and INITCHECKSUM_FLAG
   set; when the hash is unchanged nothing is touched. *)
C29_RehashRequeuesWithInit ==
    \A E \in ChecksumCalls : \A r \in SeqSet(E.ck) :
       Rehashed(E, r) =>
          LET F == update_one_checksum(E, r)
          IN  IF E.rmap[r].checksum # NewHash(E, r)
              THEN /\ RequeuedForRehash(E, F, r)
                   /\ INITCHECKSUM_FLAG \in F.rmap[r].flags
              ELSE F = E

(* C29, amended: when the re-hash differs, the rmap_item leaves the unstable
   tree and the checksum list, ksm_pages_unshared goes down by one, the new
   hash is stored, and the rmap_item is appended to the rescan queue with
   RESCAN_LIST_FLAG set and INITCHECKSUM_FLAG cleared; when the hash is
   unchanged nothing is touched. *)
C29_RehashRequeuesWithHash ==
    \A E \in ChecksumCalls : \A r \in SeqSet(E.ck) :
       Rehashed(E, r) =>
          LET F == update_one_checksum(E, r)
          IN  IF E.rmap[r].checksum # NewHash(E, r)
              THEN /\ RequeuedForRehash(E, F, r)
                   /\ INITCHECKSUM_FLAG \notin F.rmap[r].flags
              ELSE F = E

C29_Witness ==
    /\ last.op = "update_checksum"
    /\ \E r \in SeqSet(pksm_rescan_page_list) :
          /\ RESCAN_LIST_FLAG \in rmap[r].flags
          /\ INITCHECKSUM_FLAG \notin rmap[r].flags
          /\ r \notin root_unstable_tree
          /\ rmap[r].page # NULL
          /\ rmap[r].checksum = NewHash(Engine, r)

(* the tunables C30 is tried with; pksm_unshared_page_update_period = 0
   divides by zero and is left out *)
PagesToScanValues == BudgetValues \cup {ksm_thread_pages_to_scan}
SleepValues == {ksm_thread_sleep_millisecs, 1000}
PeriodValues == {1, pksm_unshared_page_update_period}

(* the entries of the checksum list that one call of
   pksm_update_unstable_page_checksum re-hashes *)
RehashedEntries(E, pages_to_scan, sleep_millisecs, period) ==
    LET n0 == calc_update_pages_num(E.cnt.ksm_pages_unshared, pages_to_scan,
                                    sleep_millisecs, period)
        need_scan == IF n0 < pages_to_scan THEN n0 ELSE pages_to_scan
    IN  IF n0 <= 0 THEN {}
        ELSE {i \in 1..LoopCount(Len(E.ck), need_scan) :
                 Rehashed(E, E.ck[i])}

(* C30: for every combination of the tunables, ksm_pages_unshared below
   ksm_thread_pages_to_scan included, one tick re-hashes at most
   min(ksm_pages_unshared * ksm_thread_sleep_millisecs /
       (pksm_unshared_page_update_period * 1000), ksm_thread_pages_to_scan)
   entries of the checksum list. *)
C30_RehashWithinBound ==
    \A E \in ChecksumCalls :
       \A pages_to_scan \in PagesToScanValues, sleep_millisecs \in SleepValues,
          period \in PeriodValues :
          LET rate == (E.cnt.ksm_pages_unshared * sleep_millisecs)
                         \div (period * 1000)
              bound == IF rate < pages_to_scan THEN rate ELSE pages_to_scan
          IN  Cardinality(RehashedEntries(E, pages_to_scan, sleep_millisecs,
                                          period)) <= bound

(* r is in the unstable tree under a hash that is no longer the hash of its
   page *)
StaleInUnstable(r) ==
    /\ r \in root_unstable_tree
    /\ rmap[r].page # NULL
    /\ rmap[r].checksum # NewHash(Engine, r)

(* the refresh found a page locked or under direct I/O *)
RehashBusy == last.op = "update_checksum" /\ last.busy # {}

(* C31: while ksm_run is KSM_RUN_MERGE and the scanner keeps ticking, every
   rmap_item that stays in the unstable tree is re-hashed again and again,
   so that a changed page content is detected in the end and the rmap_item
   leaves the tree, whatever ksm_thread_pages_to_scan is. *)
C31_StaleHashDetected ==
    (<>[]~RehashBusy /\ <>[]~FoundBusy) =>
        \A r \in Rmaps : StaleInUnstable(r) ~> ~StaleInUnstable(r)

----------------------------------------------------------------------------
(* no two nodes of the tree t carry the same stored hash *)
UniqueKeys(E, t) == \A a, b \in t : a # b => Key(E, a) # Key(E, b)

(* the rmap_items stable_tree_insert can be called with: valid and linked in
   neither tree (the BUG_ONs of lines 1436-1437) *)
InsertInputs ==
    {r \in Rmaps : /\ check_valid_rmap_item(Engine, r)
                   /\ ~in_stable_tree(Engine, r)
                   /\ ~in_unstable_tree(Engine, r)}

(* stable_tree_insert of r meets a live node of equal hash *)
MeetsEqualHash(r) ==
    \E si \in stable_tree_insert(Engine, r, rmap[r].page) :
        si.err = PKSM_FAULT_TRY

InsertKeepsKeysUnique ==
    \A r \in InsertInputs :
        LET E == Engine
            kpage == rmap[r].page
        IN  \A si \in stable_tree_insert(E, r, kpage) :
              /\ UniqueKeys(si.e, si.e.st)
              /\ si.err = PKSM_FAULT_TRY =>
                   /\ si.e.st \subseteq E.st
                   /\ \A n \in E.st \ si.e.st : Evictable(E, n)
                   /\ r \notin si.e.st
                   /\ si.e.rmap[r] = E.rmap[r]
                   /\ si.e.page[kpage] = E.page[kpage]
                   /\ si.e.cnt.ksm_pages_shared <= E.cnt.ksm_pages_shared

SearchInsertKeepsKeysUnique ==
    \A E \in SearchCalls :
        \A u \in unstable_tree_search_insert(E, cur, curpage) :
          /\ UniqueKeys(u.e, u.e.un)
          /\ u.tree_rmap_item # NULL =>
               /\ cur \notin u.e.un
               /\ u.tree_rmap_item \in u.e.un
               /\ Key(u.e, u.tree_rmap_item) = Key(u.e, cur)

(* the stored hash of an rmap_item does not change while it stays linked *)
KeysFixedWhileLinked ==
    \A r \in Rmaps :
        /\ (r \in root_stable_tree /\ r \in root_stable_tree')
              => rmap'[r].checksum = rmap[r].checksum
        /\ (r \in root_unstable_tree /\ r \in root_unstable_tree')
              => rmap'[r].checksum = rmap[r].checksum

(* C32: stable_tree_insert that meets a node whose hash equals the hash of
   the inserted rmap_item returns PKSM_FAULT_TRY and links nothing: the
   rmap_item, its flags and the page's mapping stay as they were; the
   unstable search-or-insert returns the node of equal hash instead of
   inserting.  Hence no two nodes of one tree carry the same stored hash,
   and since a stored hash does not change while its node is linked, each
   tree stays ordered by stored hash. *)
C32_TreesKeepUniqueKeys ==
    /\ [](/\ UniqueKeys(Engine, root_stable_tree)
          /\ UniqueKeys(Engine, root_unstable_tree)
          /\ InsertKeepsKeysUnique
          /\ SearchInsertKeepsKeysUnique)
    /\ [][KeysFixedWhileLinked]_vars

(* a valid rmap_item out of both trees whose hash equals the hash of the
   live node of the stable tree: stable_tree_insert of it returns
   PKSM_FAULT_TRY *)
C32_Witness == \E r \in InsertInputs : MeetsEqualHash(r)

----------------------------------------------------------------------------
(* the entries that stay on the checksum list keep their order, and an entry
   that comes on the list comes behind all that stay: list_add_tail at line
   1536 is the only insertion *)
ChecksumListOrderKept ==
    LET old == unstabletree_checksum_list
        new == unstabletree_checksum_list'
    IN  \A k, l \in 1..Len(new) :
          k < l /\ new[l] \in SeqSet(old) =>
            \E i, j \in 1..Len(old) :
                i < j /\ old[i] = new[k] /\ old[j] = new[l]

(* C33: at every tick boundary the checksum list holds exactly the
   rmap_items linked in the unstable tree, each once (CHECKSUM_LIST_FLAG is
   set iff UNSTABLE_FLAG is set), in the order of their insertion into the
   tree; whatever removes an rmap_item from the unstable tree removes it
   from the checksum list as well. *)
C33_ChecksumListIsUnstableTree ==
    /\ [](TickBoundary =>
            /\ SeqSet(unstabletree_checksum_list) = root_unstable_tree
            /\ Len(unstabletree_checksum_list) =
                   Cardinality(root_unstable_tree)
            /\ \A r \in Rmaps :
                 /\ (CHECKSUM_LIST_FLAG \in rmap[r].flags)
                       <=> (UNSTABLE_FLAG \in rmap[r].flags)
                 /\ (UNSTABLE_FLAG \in rmap[r].flags)
                       <=> r \in root_unstable_tree)
    /\ [][ChecksumListOrderKept]_vars

(* a tick has ended whose refresh took one of two rmap_items out of the
   unstable tree and left the other one *)
C33_Witness ==
    /\ TickBoundary
    /\ last.op = "update_checksum"
    /\ Len(unstabletree_checksum_list) = 1
    /\ pksm_rescan_page_list # <<>>

----------------------------------------------------------------------------
(* the words of the page key at the first n offsets of table, in order *)
SampledWords(key, table, n) == [i \in 1..n |-> key[table[i] + 1]]

(* h := ((h + w) << 8) ^ ((h + w) >> 12) over the words ws *)
RECURSIVE ShiftXorFold(_, _)
ShiftXorFold(h, ws) ==
    IF ws = <<>> THEN h
    ELSE LET s == U32Add(h, U32(0, Head(ws)))
         IN  ShiftXorFold(U32Xor(U32Shl(s, 8), U32Shr(s, 12)), Tail(ws))

(* h := h + w; h := h + (h << 8); h := h ^ (h >> 12) over the words ws *)
RECURSIVE AddShiftXorFold(_, _)
AddShiftXorFold(h, ws) ==
    IF ws = <<>> THEN h
    ELSE LET s == U32Add(h, U32(0, Head(ws)))
             t == U32Add(s, U32Shl(s, 8))
         IN  AddShiftXorFold(U32Xor(t, U32Shr(t, 12)), Tail(ws))

(* the hash the scanner stores for the page it holds, and the hashes of that
   page for every number of sampled offsets *)
HashedPageIs(Fold(_, _)) ==
    (pc = "merge" /\ init_checksum) =>
        /\ StoredHash = Fold(U32(57005, 48879),
                             SampledWords(page[curpage].data,
                                          pksm_random_table, HashStrength))
        /\ \A n \in 0..PageWords :
             pksm_calc_checksum(page[curpage].data, pksm_random_table, n)
               = Fold(U32(57005, 48879),
                      SampledWords(page[curpage].data, pksm_random_table, n))

(* C34: the page hash starts from 0xdeadbeef and, for each of the first
   offsets of the permutation table in order, sets h to
   ((h + w) << 8) ^ ((h + w) >> 12) in 32-bit unsigned arithmetic, w being
   the page's word at that offset; pksm_calc_checksum returns this fold. *)
C34_HashIsShiftXorFold == HashedPageIs(ShiftXorFold)

(* C34, amended: each round is h := h + w, then h := h + (h << 8), then
   h := h ^ (h >> 12), in 32-bit unsigned arithmetic, from 0xdeadbeef over
   the first offsets of the permutation table in order. *)
C34_HashIsAddShiftXorFold == HashedPageIs(AddShiftXorFold)

(* the scanner hashes a page whose sampled word is not zero *)
C34_Witness ==
    /\ pc = "merge"
    /\ init_checksum
    /\ page[curpage].data[pksm_random_table[1] + 1] # 0
    /\ page[curpage].data # [i \in 1..PageWords |-> 1]

----------------------------------------------------------------------------
(* ksm_pages_shared of E is the number of nodes of the stable tree of E *)
SharedIsStableNodes(E) ==
    /\ E.cnt.ksm_pages_shared = Cardinality(E.st)
    /\ E.cnt.ksm_pages_shared >= 0

(* C35: at every tick boundary ksm_pages_shared equals the number of
   rmap_items linked in the stable tree, after merges, anchor appends
   (an append that is skipped because an rmap_item is no longer valid
   changes nothing), descent-time evictions and reaps; the counter never
   goes below zero. *)
C35_SharedCountsStableNodes ==
    /\ counters.ksm_pages_shared >= 0
    /\ TickBoundary =>
         /\ SharedIsStableNodes(Engine)
         /\ \A n \in root_stable_tree :
              SharedIsStableNodes(remove_rmap_item_from_tree(Engine, n, FALSE))
         /\ \A head \in Rmaps, p \in Pages :
              LET E == Engine
                  F == stable_tree_append(E, head, p)
              IN  /\ (~check_valid_rmap_item(E, head)
                         \/ ~check_valid_rmap_item(E, E.page[p].pksm))
                       => F = E
                  /\ (head \in E.st /\ E.rmap[head].hlist # <<>>)
                       => SharedIsStableNodes(F)

(* a tick has ended with a stable node that carries the two anchors of a
   two-page merge *)
C35_Witness ==
    /\ TickBoundary
    /\ \E n \in root_stable_tree : Len(rmap[n].hlist) = 2
    /\ counters.ksm_pages_shared = 1
    /\ \E r \in Rmaps : rmap[r].alloc = "yes" /\ ~check_valid_rmap_item(Engine, r)

----------------------------------------------------------------------------
(* C36: at every tick boundary every page that the scanner has turned into
   a KSM page and that is still alive is the page of a node linked in the
   stable tree, and the rmap_item stamped in its mapping is that node and
   not NULL; also after stable_tree_insert returned PKSM_FAULT_TRY or
   PKSM_FAULT_DROP behind a successful try_to_merge_two_pages, and after
   the second step of a two-page merge failed behind a successful first
   step. *)
C36_KsmPagesAreStableNodes ==
    TickBoundary =>
        \A p \in Pages :
            (page[p].st = "anon" /\ PageKsm(Engine, p)) =>
                /\ page[p].stable # NULL
                /\ page[p].stable \in root_stable_tree
                /\ rmap[page[p].stable].page = p

----------------------------------------------------------------------------
(* the pages that are tracked, alive, still mapped and not KSM pages *)
TrackedUnmerged ==
    {p \in Pages : /\ page[p].st = "anon"
                   /\ PagePKSM(Engine, p)
                   /\ ~PageKsm(Engine, p)
                   /\ page[p].pksm # NULL
                   /\ rmap[page[p].pksm].page = p
                   /\ page_mapcount(Engine, p) > 0}

(* the scanner will come across r again *)
ScannerReaches(r) ==
    \/ r \in SeqSet(new_anon_page_list)
    \/ r \in SeqSet(pksm_rescan_page_list)
    \/ (r \in root_unstable_tree /\ r \in SeqSet(unstabletree_checksum_list))

(* C37: at every tick boundary the rmap_item of every tracked page that is
   alive and not merged is on new_anon_page_list, on pksm_rescan_page_list,
   or in the unstable tree and on the checksum list; no path of the scanner
   leaves a live rmap_item tracked but in no queue and no tree. *)
C37_TrackedRmapReachable ==
    TickBoundary => \A p \in TrackedUnmerged : ScannerReaches(page[p].pksm)

----------------------------------------------------------------------------
(* r is linked in a tree, on the checksum list or on a queue *)
LinkedSomewhere(r) ==
    \/ r \in root_stable_tree
    \/ r \in root_unstable_tree
    \/ r \in SeqSet(unstabletree_checksum_list)
    \/ r \in SeqSet(new_anon_page_list)
    \/ r \in SeqSet(pksm_rescan_page_list)
    \/ r \in SeqSet(del_anon_page_list)

(* C38: no freed rmap_item stays linked: an rmap_item that has been freed
   (by pksm_drop_rmap_item, by pksm_clean_all_rmap_items or by
   pksm_del_anon_page) is in neither tree, not on the checksum list and on
   none of new_anon_page_list, pksm_rescan_page_list and
   del_anon_page_list, so that no later descent or drain reaches freed
   memory. *)
C38_FreedRmapUnlinked ==
    \A r \in Rmaps : rmap[r].alloc = "freed" => ~LinkedSomewhere(r)

(* the scanner has dropped and freed its candidate while the unstable
   tree holds another rmap_item *)
C38_Witness ==
    /\ last.op = "cmp_and_merge_page"
    /\ last.ret = PKSM_FAULT_DROP
    /\ rmap[last.rmap].alloc = "freed"
    /\ root_unstable_tree # {}

----------------------------------------------------------------------------
(* Page locks of a merge attempt.  An event is a lock or an unlock of one
   page by the scanner.  Which vmas are VM_LOCKED and which pages are
   mlocked is set by the host through mlock; both are inputs of the
   attempt: vmlocked is the set of VM_LOCKED vmas, mlocked the set of
   PageMlocked pages. *)

(* the walk of pksm_rmap_walk with pksm_writepect_pte as rmap_one: behind a
   successful rmap_one for a VM_LOCKED vma and a kpage that is not mlocked,
   lines 1209-1214 unlock page and lock kpage; the assignment page = kpage
   changes the callee's copy only *)
RECURSIVE WalkPageLocksFrom(_, _, _, _, _, _, _)
WalkPageLocksFrom(E, p, ms, i, kpage, vmlocked, mlocked) ==
    IF i > Len(ms) THEN <<>>
    ELSE IF ~vma_can_enter(ms[i]) THEN <<>>
    ELSE LET r1 == pksm_writepect_pte(E, p, ms[i], kpage)
             swap == /\ ms[i] \in vmlocked
                     /\ kpage # NULL
                     /\ r1.err = PKSM_FAULT_SUCCESS
                     /\ kpage \notin mlocked
             evs == IF swap
                    THEN <<(<<"unlock", p>>), (<<"lock", kpage>>)>>
                    ELSE <<>>
         IN  IF r1.err # PKSM_FAULT_SUCCESS THEN evs
             ELSE evs \o WalkPageLocksFrom(r1.e, p, ms, i + 1, kpage, vmlocked,
                             IF swap THEN mlocked \cup {kpage} ELSE mlocked)

(* try_to_merge_one_anon_page: trylock_page(page), the walk,
   unlock_page(page) *)
try_to_merge_one_anon_page_page_locks(E, p, kpage, vmlocked, mlocked) ==
    IF p = kpage \/ ~PageAnon(E, p) \/ PageLocked(E, p) THEN <<>>
    ELSE <<(<<"lock", p>>)>>
            \o (IF PageKsm(E, p) \/ page_mapcount(E, p) = 0 THEN <<>>
                ELSE WalkPageLocksFrom(E, p,
                         AnonVmaMaps(page_rmapping(E, p)), 1, kpage,
                         vmlocked, mlocked))
            \o <<(<<"unlock", p>>)>>

(* every unlock is of a page that is held, every lock of a page that is not
   held, and nothing is held at the end *)
RECURSIVE LocksBalanced(_, _)
LocksBalanced(held, evs) ==
    IF evs = <<>> THEN held = {}
    ELSE LET ev == Head(evs)
         IN  IF ev[1] = "lock"
             THEN ev[2] \notin held
                     /\ LocksBalanced(held \cup {ev[2]}, Tail(evs))
             ELSE ev[2] \in held
                     /\ LocksBalanced(held \ {ev[2]}, Tail(evs))

(* the merge attempts of cmp_and_merge_page on the unstable path, in the
   states S in which it starts its searches: step 1 on the scanned page,
   step 2 on the tree page with the scanned page as kpage *)
MergeLocksBalanced(VmLockedChoices) ==
    \A S \in SearchCalls :
      \A s \in stable_tree_search(S, curpage) :
        (~s.hang /\ s.kpage = NULL) =>
          \A u \in unstable_tree_search_insert(s.e, cur, curpage) :
            (~u.hang /\ u.tree_rmap_item # NULL) =>
              \A vmlocked \in VmLockedChoices, mlocked \in SUBSET Pages :
                LET m1 == try_to_merge_with_pksm_page(u.e, cur, curpage, NULL)
                IN  /\ LocksBalanced({},
                          try_to_merge_one_anon_page_page_locks(
                             u.e, curpage, NULL, vmlocked, mlocked))
                    /\ m1.err = PKSM_FAULT_SUCCESS =>
                         LocksBalanced({},
                            try_to_merge_one_anon_page_page_locks(
                               m1.e, u.tree_page, curpage, vmlocked, mlocked))

(* C39: every page lock the scanner takes during a merge attempt is
   released before the attempt returns, and the scanner unlocks only pages
   it holds locked: after try_to_merge_one_anon_page neither the source
   page nor the winner page is left locked by the scanner, also when a
   mapping is VM_LOCKED and the winner page is not yet mlocked. *)
C39_MergeLocksReleased == MergeLocksBalanced(SUBSET Maps)

----------------------------------------------------------------------------
(* The sharing counters under concurrency.  One merged page with its stable
   rmap_item: sh.ptes is page_mapcount(page), sh.mapcount is
   rmap_item->_mapcount (an atomic_t), sh.sharing is ksm_pages_sharing (a
   plain unsigned long: ksm_pages_sharing++ and ksm_pages_sharing-- are a
   load and a store, and no lock is common to their callers), sh.other is
   the part of ksm_pages_sharing owed to other merged pages, sh.live is
   whether the rmap_item still belongs to the page. *)

ShareFrame ==
    UNCHANGED <<page, pte, rmap, root_stable_tree, root_unstable_tree,
                new_anon_page_list, del_anon_page_list, pksm_rescan_page_list,
                unstabletree_checksum_list, counters, pksm_random_table,
                l_add, pc, cur, curpage, init_checksum, writes, reap_due,
                ever_shared, ksm_run, run_store_wait, stopped_intake, last,
                anon_vma_head, vm_flags>>

(* a merged page with k mappings after the scanner's merges: one mapping is
   the winner's own, k - 1 were redirected by replace_page and counted.
   Unmapper t unmaps mapping t; the last unmapper unmaps the mapping that
   ksmd is about to redirect to the page, if there is one *)
ShareStart(k, other, scanner) ==
    [ShareIdle EXCEPT
        !.sharing = (k - 1) + other, !.mapcount = k - 1, !.ptes = k,
        !.other = other, !.live = TRUE,
        !.upc = [t \in Unmappers |->
                    IF t <= k THEN "read_ksm_map"
                    ELSE IF scanner THEN "unmapped" ELSE "done"],
        !.spc = IF scanner THEN "add_rmap" ELSE "done",
        !.dpc = "wait"]

InitShare ==
    /\ InitEngine
    /\ \E k \in (NumUnmappers - 1)..NumUnmappers,
          other \in 0..MaxOtherSharers, scanner \in BOOLEAN :
          sh = ShareStart(k, other, scanner)

(* one step of thread t inside the host's unmap of its mapping:
   pksm_unmap_sharing_page (543-566) with pksm_del_sharing_page_counter
   (515-525) for n = 1, then the removal of the mapping *)
ShareUnmapStep(t) ==
    /\ ShareFrame
    /\ LET r == sh.ureg[t]
       IN  \/ /\ sh.upc[t] = "unmapped"
              /\ sh.spc \notin {"add_rmap", "done"}
              /\ sh' = [sh EXCEPT !.upc[t] = "read_ksm_map"]
           \/ /\ sh.upc[t] = "read_ksm_map"
              /\ sh' = IF sh.live
                       THEN [sh EXCEPT !.ureg[t].ksm_map = sh.mapcount,
                                       !.upc[t] = "read_mapcount"]
                       ELSE [sh EXCEPT !.upc[t] = "remove"]
           \/ /\ sh.upc[t] = "read_mapcount"
              /\ sh' = [sh EXCEPT
                          !.ureg[t].mapcount = sh.ptes,
                          !.upc[t] = IF sh.ptes > r.ksm_map THEN "remove"
                                     ELSE IF r.ksm_map > 0 THEN "load"
                                     ELSE "remove"]
           \/ /\ sh.upc[t] = "load"
              /\ sh' = [sh EXCEPT !.ureg[t].tmp = sh.sharing,
                                  !.upc[t] = "store"]
           \/ /\ sh.upc[t] = "store"
              /\ sh' = [sh EXCEPT !.sharing = r.tmp - 1, !.upc[t] = "dec"]
           \/ /\ sh.upc[t] = "dec"
              /\ sh' = [sh EXCEPT !.mapcount = @ - 1, !.upc[t] = "remove"]
           \/ /\ sh.upc[t] = "remove"
              /\ sh' = [sh EXCEPT !.ptes = @ - 1, !.upc[t] = "done"]

(* one step of ksmd inside replace_page for one more mapping redirected to
   the page: page_add_anon_rmap (1086), then
   pksm_add_sharing_page_counter(kpage, 1) (1099, 527-541) *)
ShareScannerStep ==
    /\ ShareFrame
    /\ \/ /\ sh.spc = "add_rmap" /\ sh.live /\ sh.ptes > 0
          /\ sh' = [sh EXCEPT !.ptes = @ + 1, !.spc = "load"]
       \/ /\ sh.spc = "load"
          /\ sh' = [sh EXCEPT !.stmp = sh.sharing, !.spc = "store"]
       \/ /\ sh.spc = "store"
          /\ sh' = [sh EXCEPT !.sharing = sh.stmp + 1, !.spc = "inc"]
       \/ /\ sh.spc = "inc"
          /\ sh' = [sh EXCEPT !.mapcount = @ + 1, !.spc = "done"]

(* one step of pksm_del_anon_page (2158-2164) for the page, called when its
   last mapping and the scanner's reference are gone:
   pksm_del_sharing_page_counter(page, map), then rmap_item->page = NULL *)
ShareDelStep ==
    /\ ShareFrame
    /\ \/ /\ sh.dpc = "wait" /\ sh.ptes = 0
          /\ \A t \in Unmappers : sh.upc[t] = "done"
          /\ sh.spc \in {"add_rmap", "done"}
          /\ sh' = [sh EXCEPT !.dmap = sh.mapcount,
                              !.dleft = sh.mapcount,
                              !.dpc = IF sh.mapcount > 0 THEN "load"
                                      ELSE "unlink"]
       \/ /\ sh.dpc = "load"
          /\ sh' = [sh EXCEPT !.dtmp = sh.sharing, !.dpc = "store"]
       \/ /\ sh.dpc = "store"
          /\ sh' = [sh EXCEPT !.sharing = sh.dtmp - 1, !.dpc = "dec"]
       \/ /\ sh.dpc = "dec"
          /\ sh' = [sh EXCEPT !.mapcount = @ - 1, !.dleft = @ - 1,
                              !.dpc = IF sh.dleft > 1 THEN "load"
                                      ELSE "unlink"]
       \/ /\ sh.dpc = "unlink"
          /\ sh' = [sh EXCEPT !.live = FALSE, !.dpc = "done"]

NextShare ==
    \/ \E t \in Unmappers : ShareUnmapStep(t)
    \/ ShareScannerStep
    \/ ShareDelStep

SpecShare == InitShare /\ [][NextShare]_vars

(* no call is in progress *)
ShareQuiescent ==
    /\ \A t \in Unmappers : sh.upc[t] = "done"
    /\ sh.spc = "done"
    /\ sh.dpc \in {"wait", "done"}
    /\ sh.dpc = "wait" => sh.ptes > 0

(* C40: under every interleaving of concurrent pksm_unmap_sharing_page
   calls for different mappings of one merged page, pksm_del_anon_page and
   the scanner's counter increments, rmap_item->_mapcount never becomes
   negative, ksm_pages_sharing never underflows, and at quiescence
   ksm_pages_sharing equals the sum of _mapcount over the live rmap_items:
   no update is lost. *)
C40_SharingCountersExact ==
    sh.live \/ sh.dpc = "done" =>
        /\ sh.mapcount >= 0
        /\ sh.sharing >= 0
        /\ ShareQuiescent =>
             sh.sharing = sh.other + (IF sh.live THEN sh.mapcount ELSE 0)

====
